---- MODULE Spec2Model ----
(***************************************************************************)
(* Control core of the multiphase flow analyzer: the PID controller        *)
(* (pid_controller.py), the safety evaluator (safety_system.py) and the    *)
(* PLC scan loop (main_controller.py).                                     *)
(*                                                                         *)
(* Python floats are modelled as exact rationals <<n, d>> in lowest terms  *)
(* with d > 0, so every comparison of the code is decided on the exact     *)
(* value.  <<0, 0>> stands for Python's None where an argument is          *)
(* Optional[float].                                                        *)
(***************************************************************************)
EXTENDS Integers, Sequences, FiniteSets, TLC

VARIABLES
    pid,                \* SpecPID: the PIDController under test
    last_call,          \* SpecPID: the last operation called and what it returned
    ncalls,             \* number of operations called so far (SpecPID, SpecTune: on the
                        \* controller; the scan loop: operator commands and sensor writes)
    dt_pos,             \* SpecPID: every update so far had an effective dt > 0
    tune,               \* SpecTune: the last auto_tune call, its result, the controller before it
    pv,                 \* ProcessVariables: the PLC memory map
    limits,             \* SafetySystem.limits
    safety_violations,  \* SafetySystem.safety_violations
    trip_active,        \* SafetySystem.trip_active
    last_check,         \* the last SafetySystem call, its result, trip_active before it
    flow_controller,    \* PLCController.flow_controller
    pressure_controller,\* PLCController.pressure_controller
    running,            \* PLCController.running, the scan loop's flag
    modbus_running,     \* ModbusServer.running
    opcua_running,      \* OPCUAServer.running
    pc,                 \* where the start_controller coroutine stands
    now,                \* wall clock, whole seconds
    last_sample_time,   \* PLCController._last_sample_time, -1 while the attribute is unset
    current_time,       \* the local current_time of a suspended _sampling_sequence
    cycles,             \* scan cycles started so far
    cyc                 \* what has happened in the scan cycle in progress

pidVars == <<pid, last_call, ncalls, dt_pos, tune>>

safetyVars == <<limits, safety_violations, trip_active, last_check>>

plcVars == <<flow_controller, pressure_controller, running, modbus_running,
             opcua_running, pc, now, last_sample_time, current_time, cycles, cyc>>

vars == <<pid, last_call, ncalls, dt_pos, tune, pv, limits, safety_violations,
          trip_active, last_check, flow_controller, pressure_controller, running,
          modbus_running, opcua_running, pc, now, last_sample_time, current_time,
          cycles, cyc>>

(***************************************************************************)
(* Exact arithmetic standing for Python float arithmetic.  A number is     *)
(* <<n, d>>, the rational n/d in lowest terms with d > 0.  A controller    *)
(* gain, and what update computes from it, can also be <<n, d, e>> with    *)
(* e >= 1, the number n/d * (6/5)^e: the repeated gain *= 1.2 of auto_tune *)
(* takes the gain beyond 32-bit numerators and denominators, and the third *)
(* component counts the factors 6/5 that no longer fit into n/d (as many   *)
(* as fit are folded into it).  Both forms are unique for the number they  *)
(* stand for, so equality of numbers is equality of tuples.                *)
(***************************************************************************)
RECURSIVE GCD(_, _)
GCD(a, b) == IF b = 0 THEN a ELSE GCD(b, a % b)

Abs(i) == IF i < 0 THEN -i ELSE i

Q(n, d) ==
    LET s == IF d < 0 THEN -1 ELSE 1
        g == GCD(Abs(n), Abs(d))
    IN  <<(s * n) \div g, (s * d) \div g>>

R(i) == <<i, 1>>

NoneR == <<0, 0>>

IsNone(x) == x[2] = 0

\* Operations on numbers <<n, d>>.  Common factors are cancelled before
\* multiplying, which keeps the intermediate products small.
RAdd(a, b) ==
    LET g == GCD(a[2], b[2])
    IN  Q(a[1] * (b[2] \div g) + b[1] * (a[2] \div g), (a[2] \div g) * b[2])

RNeg(a) == <<-a[1], a[2]>>

RSub(a, b) == RAdd(a, RNeg(b))

RMul(a, b) ==
    LET g1 == GCD(Abs(a[1]), b[2])
        g2 == GCD(Abs(b[1]), a[2])
    IN  Q((a[1] \div g1) * (b[1] \div g2), (a[2] \div g2) * (b[2] \div g1))

RInv(a) == IF a[1] < 0 THEN <<-a[2], -a[1]>> ELSE <<a[2], a[1]>>

RDiv(a, b) == RMul(a, RInv(b))

RLt(a, b) ==
    LET g == GCD(a[2], b[2])
    IN  a[1] * (b[2] \div g) < b[1] * (a[2] \div g)

RLe(a, b) == ~RLt(b, a)

RAbs(a) == <<Abs(a[1]), a[2]>>

RMax(a, b) == IF RLt(a, b) THEN b ELSE a

RMin(a, b) == IF RLt(b, a) THEN b ELSE a

\* The one element of a one-element set: binds an intermediate result once.
The(S) == CHOOSE x \in S : TRUE

\* The largest integer of the arithmetic.
MaxInt == (2^30 - 1) + 2^30

\* The product of the integers i and j is within the arithmetic.
FitsProduct(i, j) == j = 0 \/ Abs(i) <= MaxInt \div Abs(j)

\* RMul(a, b) and RLt(a, b) stay within the arithmetic.
FitsMul(a, b) ==
    LET g1 == GCD(Abs(a[1]), b[2])
        g2 == GCD(Abs(b[1]), a[2])
    IN  /\ FitsProduct(a[1] \div g1, b[1] \div g2)
        /\ FitsProduct(a[2] \div g2, b[2] \div g1)

FitsLt(a, b) ==
    LET g == GCD(a[2], b[2])
    IN  /\ FitsProduct(a[1], b[2] \div g)
        /\ FitsProduct(b[1], a[2] \div g)

\* n/d * (6/5)^e: factors 6/5 are taken out of n/d as long as there are any
\* (Strip), multiplied into it as long as the result fits (Fold), or all
\* multiplied into it (Expand, for a number that is known to fit; with a
\* negative e, factors 5/6).
RECURSIVE Strip(_, _, _)
Strip(n, d, e) ==
    IF n # 0 /\ n % 6 = 0 /\ d % 5 = 0
    THEN Strip(n \div 6, d \div 5, e + 1)
    ELSE <<n, d, e>>

RECURSIVE Fold(_, _, _)
Fold(n, d, e) ==
    IF n = 0 THEN <<0, 1>>
    ELSE IF e = 0 THEN <<n, d>>
    ELSE IF FitsMul(<<n, d>>, <<6, 5>>)
    THEN The({ Fold(m[1], m[2], e - 1) : m \in { RMul(<<n, d>>, <<6, 5>>) } })
    ELSE <<n, d, e>>

RECURSIVE Expand(_, _, _)
Expand(n, d, e) ==
    IF e = 0 THEN <<n, d>>
    ELSE IF e > 0
    THEN The({ Expand(m[1], m[2], e - 1) : m \in { RMul(<<n, d>>, <<6, 5>>) } })
    ELSE The({ Expand(m[1], m[2], e + 1) : m \in { RMul(<<n, d>>, <<5, 6>>) } })

Exponent(x) == IF Len(x) = 3 THEN x[3] ELSE 0

Stripped(x) == Strip(x[1], x[2], Exponent(x))

\* The number x as <<n, d>>; outside the arithmetic when it does not fit.
Plain(x) == IF Len(x) = 2 THEN x ELSE Expand(x[1], x[2], x[3])

\* Natural numbers of any size as sequences of digits to the base 10^4, the
\* lowest first, without leading zeros: they decide the order of two numbers
\* whose cross products do not fit.
Base == 10^4

RECURSIVE BigOfInt(_)
BigOfInt(n) == IF n = 0 THEN <<>> ELSE <<n % Base>> \o BigOfInt(n \div Base)

\* The operations on digit sequences work on a range lo..hi of digits and
\* split it in halves, the carry of one half passed to the other.

\* A * k + c on the digits lo..hi, 0 < k <= Base: the digits and the carry.
RECURSIVE BigTimesRange(_, _, _, _, _)
BigTimesRange(A, lo, hi, k, c) ==
    IF lo = hi
    THEN The({ << <<t % Base>>, t \div Base >> : t \in { A[lo] * k + c } })
    ELSE The({ The({ <<l[1] \o h[1], h[2]>> :
                       h \in { BigTimesRange(A, (lo + hi) \div 2 + 1, hi, k, l[2]) } }) :
                 l \in { BigTimesRange(A, lo, (lo + hi) \div 2, k, c) } })

BigTimes(A, k) ==
    IF A = <<>> THEN <<>>
    ELSE The({ r[1] \o BigOfInt(r[2]) : r \in { BigTimesRange(A, 1, Len(A), k, 0) } })

Digit(A, i) == IF i <= Len(A) THEN A[i] ELSE 0

\* A + B + c on the digits lo..hi: the digits and the carry.
RECURSIVE BigPlusRange(_, _, _, _, _)
BigPlusRange(A, B, lo, hi, c) ==
    IF lo = hi
    THEN The({ << <<t % Base>>, t \div Base >> : t \in { Digit(A, lo) + Digit(B, lo) + c } })
    ELSE The({ The({ <<l[1] \o h[1], h[2]>> :
                       h \in { BigPlusRange(A, B, (lo + hi) \div 2 + 1, hi, l[2]) } }) :
                 l \in { BigPlusRange(A, B, lo, (lo + hi) \div 2, c) } })

BigPlus(A, B) ==
    IF A = <<>> THEN B
    ELSE IF B = <<>> THEN A
    ELSE The({ r[1] \o BigOfInt(r[2]) :
                 r \in { BigPlusRange(A, B, 1, IF Len(A) < Len(B) THEN Len(B) ELSE Len(A), 0) } })

\* X with n zero digits below it.
BigShift(X, n) == IF X = <<>> THEN <<>> ELSE [i \in 1 .. n |-> 0] \o X

\* A times the digits lo..hi of B.
RECURSIVE BigProductRange(_, _, _, _)
BigProductRange(A, B, lo, hi) ==
    IF lo = hi THEN (IF B[lo] = 0 THEN <<>> ELSE BigTimes(A, B[lo]))
    ELSE The({ The({ BigPlus(l, BigShift(h, (lo + hi) \div 2 + 1 - lo)) :
                       h \in { BigProductRange(A, B, (lo + hi) \div 2 + 1, hi) } }) :
                 l \in { BigProductRange(A, B, lo, (lo + hi) \div 2) } })

BigProduct(A, B) ==
    IF A = <<>> \/ B = <<>> THEN <<>> ELSE BigProductRange(A, B, 1, Len(B))

\* A * k^e for a digit k.
RECURSIVE BigPower(_, _, _)
BigPower(A, k, e) ==
    IF e = 0 THEN A
    ELSE IF e = 1 THEN BigTimes(A, k)
    ELSE The({ BigPower(m, k, e - e \div 2) : m \in { BigPower(A, k, e \div 2) } })

\* A < B: at the highest digit in which they differ.
BigLess(A, B) ==
    IF Len(A) # Len(B) THEN Len(A) < Len(B)
    ELSE \E i \in DOMAIN A :
            /\ \A k \in 1 .. Len(A) - i : A[Len(A) + 1 - k] = B[Len(A) + 1 - k]
            /\ A[i] < B[i]

\* |x| < |y| for x = n/d * (6/5)^e and y = n'/d' * (6/5)^e' is
\* |n| * d' * 6^e * 5^e' < |n'| * d * 6^e' * 5^e, the powers common to both
\* sides left out; Magnitude(x, y) is the left-hand side.
Magnitude(x, y) ==
    The({ BigPower(BigPower(BigProduct(BigOfInt(Abs(x[1])), BigOfInt(y[2])),
                            6, Exponent(x) - k), 5, Exponent(y) - k) :
            k \in { IF Exponent(x) < Exponent(y) THEN Exponent(x)
                    ELSE Exponent(y) } })

Sign(i) == IF i < 0 THEN -1 ELSE IF i > 0 THEN 1 ELSE 0

LtBig(a, b) ==
    IF Sign(a[1]) # Sign(b[1]) THEN Sign(a[1]) < Sign(b[1])
    ELSE IF a[1] = 0 THEN FALSE
    ELSE IF a[1] > 0 THEN BigLess(Magnitude(a, b), Magnitude(b, a))
    ELSE BigLess(Magnitude(b, a), Magnitude(a, b))

\* Sum, product, quotient and order of numbers of either form, on evaluated
\* arguments a and b.
AddV(a, b) ==
    IF Len(a) = 2 /\ Len(b) = 2 THEN RAdd(a, b)
    ELSE IF a[1] = 0 THEN b
    ELSE IF b[1] = 0 THEN a
    ELSE The({ The({ Fold(m[1], m[2], k) :
                       m \in { RAdd(Expand(s[1][1], s[1][2], s[1][3] - k),
                                    Expand(s[2][1], s[2][2], s[2][3] - k)) } }) :
                 s \in { <<Stripped(a), Stripped(b)>> },
                 k \in { IF Stripped(a)[3] < Stripped(b)[3]
                         THEN Stripped(a)[3] ELSE Stripped(b)[3] } })

MulV(a, b) ==
    IF a = <<0, 1>> \/ b = <<0, 1>> THEN <<0, 1>>
    ELSE IF Len(a) = 2 /\ Len(b) = 2 /\ FitsMul(a, b) THEN RMul(a, b)
    ELSE The({ The({ Fold(m[1], m[2], s[1][3] + s[2][3]) :
                       m \in { RMul(<<s[1][1], s[1][2]>>, <<s[2][1], s[2][2]>>) } }) :
                 s \in { <<Stripped(a), Stripped(b)>> } })

DivV(a, b) ==
    IF Len(b) = 2 THEN MulV(a, RInv(b))
    ELSE The({ The({ IF s[1][3] >= s[2][3]
                     THEN Fold(m[1], m[2], s[1][3] - s[2][3])
                     ELSE Expand(m[1], m[2], s[1][3] - s[2][3]) :
                       m \in { RMul(<<s[1][1], s[1][2]>>,
                                    RInv(<<s[2][1], s[2][2]>>)) } }) :
                 s \in { <<Stripped(a), Stripped(b)>> } })

LtV(a, b) ==
    IF Len(a) = 2 /\ Len(b) = 2 /\ FitsLt(a, b) THEN RLt(a, b) ELSE LtBig(a, b)

\* The operations on controller gains and on what is computed from them.
GAdd(a, b) == The({ AddV(x[1], x[2]) : x \in { <<a, b>> } })

GNeg(a) == The({ IF Len(x) = 3 THEN <<-x[1], x[2], x[3]>> ELSE <<-x[1], x[2]>> :
                   x \in { a } })

GSub(a, b) == GAdd(a, GNeg(b))

GMul(a, b) == The({ MulV(x[1], x[2]) : x \in { <<a, b>> } })

GDiv(a, b) == The({ DivV(x[1], x[2]) : x \in { <<a, b>> } })

GLt(a, b) == The({ LtV(x[1], x[2]) : x \in { <<a, b>> } })

\* The filtered derivative of update keeps a fraction 1 - alpha of its last
\* value at every call, so its denominator grows by a factor at every call
\* and leaves the arithmetic after a few.  A number that does not fit <<n, d>>
\* is <<s, N, ps, ks>>: its sign s, the digit sequence N of its numerator and
\* its denominator as the product of the primes ps (ascending) to the powers
\* ks (positive), in lowest terms.  Inside an operation a number of either
\* form is the record [s, N, D], D the function from primes to powers.
RECURSIVE Trim(_)
Trim(A) == IF A # <<>> /\ A[Len(A)] = 0 THEN Trim(SubSeq(A, 1, Len(A) - 1)) ELSE A

\* A - B - c for A >= B on the digits lo..hi: the digits and the borrow.
RECURSIVE BigMinusRange(_, _, _, _, _)
BigMinusRange(A, B, lo, hi, c) ==
    IF lo = hi
    THEN The({ IF t < 0 THEN << <<t + Base>>, 1 >> ELSE << <<t>>, 0 >> :
                 t \in { A[lo] - Digit(B, lo) - c } })
    ELSE The({ The({ <<l[1] \o h[1], h[2]>> :
                       h \in { BigMinusRange(A, B, (lo + hi) \div 2 + 1, hi, l[2]) } }) :
                 l \in { BigMinusRange(A, B, lo, (lo + hi) \div 2, c) } })

BigMinus(A, B) == IF B = <<>> THEN A ELSE Trim(BigMinusRange(A, B, 1, Len(A), 0)[1])

\* The digits lo..hi of A div m for a small m, and the remainder, r the
\* remainder of the digits above hi.
RECURSIVE BigQuotRange(_, _, _, _, _)
BigQuotRange(A, lo, hi, m, r) ==
    IF lo = hi
    THEN The({ << <<t \div m>>, t % m >> : t \in { r * Base + A[lo] } })
    ELSE The({ The({ <<l[1] \o h[1], l[2]>> :
                       l \in { BigQuotRange(A, lo, (lo + hi) \div 2, m, h[2]) } }) :
                 h \in { BigQuotRange(A, (lo + hi) \div 2 + 1, hi, m, r) } })

BigFits(A) == ~BigLess(BigOfInt(MaxInt), A)

RECURSIVE BigToInt(_, _)
BigToInt(A, i) == IF i > Len(A) THEN 0 ELSE A[i] + Base * BigToInt(A, i + 1)

\* The prime factors of n with their powers, by trial division from p on.
RECURSIVE Multiplicity(_, _)
Multiplicity(n, p) == IF n % p = 0 THEN 1 + Multiplicity(n \div p, p) ELSE 0

RECURSIVE Without(_, _)
Without(n, p) == IF n % p = 0 THEN Without(n \div p, p) ELSE n

RECURSIVE FactorFrom(_, _)
FactorFrom(n, p) ==
    IF n = 1 THEN <<>>
    ELSE IF p > n \div p THEN << <<n, 1>> >>
    ELSE IF n % p = 0
    THEN << <<p, Multiplicity(n, p)>> >> \o FactorFrom(Without(n, p), p + 1)
    ELSE FactorFrom(n, p + 1)

Powers(F) ==
    [p \in { F[i][1] : i \in DOMAIN F } |-> F[CHOOSE i \in DOMAIN F : F[i][1] = p][2]]

Power(D, p) == IF p \in DOMAIN D THEN D[p] ELSE 0

LongOf(x) ==
    IF Len(x) = 4
    THEN [s |-> x[1], N |-> x[2],
          D |-> [p \in { x[3][i] : i \in DOMAIN x[3] } |->
                     x[4][CHOOSE i \in DOMAIN x[3] : x[3][i] = p]]]
    ELSE [s |-> Sign(x[1]), N |-> BigOfInt(Abs(x[1])), D |-> Powers(FactorFrom(x[2], 2))]

\* N times the primes of S to the powers that D lacks of L.
RECURSIVE BigScale(_, _, _, _)
BigScale(N, S, L, D) ==
    IF S = {} THEN N
    ELSE The({ BigScale(BigPower(N, p, L[p] - Power(D, p)), S \ {p}, L, D) :
                 p \in { CHOOSE q \in S : TRUE } })

\* N / D in lowest terms, by the primes of S.
RECURSIVE LongReduce(_, _, _)
LongReduce(N, D, S) ==
    IF S = {} THEN <<N, D>>
    ELSE The({ IF D[p] > 0 /\ r[2] = 0
               THEN LongReduce(Trim(r[1]), [D EXCEPT ![p] = @ - 1], S)
               ELSE LongReduce(N, D, S \ {p}) :
                 p \in { CHOOSE q \in S : TRUE },
                 r \in { BigQuotRange(N, 1, Len(N), CHOOSE q \in S : TRUE, 0) } })

\* The product of the prime powers D times acc, 0 when it does not fit.
RECURSIVE PowerProduct(_, _, _)
PowerProduct(S, D, acc) ==
    IF S = {} THEN acc
    ELSE LET p == CHOOSE q \in S : TRUE
         IN  IF D[p] = 0 THEN PowerProduct(S \ {p}, D, acc)
             ELSE IF FitsProduct(acc, p)
             THEN PowerProduct(S, [D EXCEPT ![p] = @ - 1], acc * p)
             ELSE 0

RECURSIVE Ascending(_)
Ascending(S) ==
    IF S = {} THEN <<>>
    ELSE The({ <<m>> \o Ascending(S \ {m}) : m \in { CHOOSE q \in S : \A r \in S : q <= r } })

\* The number [s, N, D] as <<n, d>> when it fits, as <<s, N, ps, ks>> otherwise.
LongOut(x) ==
    IF x.s = 0 \/ x.N = <<>> THEN <<0, 1>>
    ELSE The({ The({ IF d > 0 /\ BigFits(r[1])
                     THEN <<x.s * BigToInt(r[1], 1), d>>
                     ELSE The({ <<x.s, r[1], ps, [i \in DOMAIN ps |-> r[2][ps[i]]]>> :
                                  ps \in { Ascending({ p \in DOMAIN r[2] : r[2][p] > 0 }) } }) :
                       d \in { PowerProduct(DOMAIN r[2], r[2], 1) } }) :
                 r \in { LongReduce(x.N, x.D, DOMAIN x.D) } })

LongMul(x, y) ==
    [s |-> x.s * y.s, N |-> BigProduct(x.N, y.N),
     D |-> [p \in DOMAIN x.D \cup DOMAIN y.D |-> Power(x.D, p) + Power(y.D, p)]]

LongAdd(x, y) ==
    IF x.s = 0 THEN y
    ELSE IF y.s = 0 THEN x
    ELSE The({ The({ IF x.s = y.s THEN [s |-> x.s, N |-> BigPlus(n[1], n[2]), D |-> L]
                     ELSE IF n[1] = n[2] THEN [s |-> 0, N |-> <<>>, D |-> L]
                     ELSE IF BigLess(n[1], n[2])
                     THEN [s |-> y.s, N |-> BigMinus(n[2], n[1]), D |-> L]
                     ELSE [s |-> x.s, N |-> BigMinus(n[1], n[2]), D |-> L] :
                       n \in { <<BigScale(x.N, DOMAIN L, L, x.D),
                                 BigScale(y.N, DOMAIN L, L, y.D)>> } }) :
                 L \in { [p \in DOMAIN x.D \cup DOMAIN y.D |->
                             IF Power(x.D, p) < Power(y.D, p) THEN Power(y.D, p)
                             ELSE Power(x.D, p)] } })

\* RAdd(a, b) stays within the arithmetic.
FitsAdd(a, b) ==
    The({ /\ FitsProduct(a[1], b[2] \div g)
          /\ FitsProduct(b[1], a[2] \div g)
          /\ FitsProduct(a[2] \div g, b[2])
          /\ \/ Sign(a[1]) # Sign(b[1])
             \/ Abs(a[1] * (b[2] \div g)) <= MaxInt - Abs(b[1] * (a[2] \div g)) :
            g \in { GCD(a[2], b[2]) } })

\* Sum and product where an operand can be the last filtered derivative.
LAddV(a, b) ==
    IF Len(a) = 2 /\ Len(b) = 2 /\ FitsAdd(a, b) THEN RAdd(a, b)
    ELSE LongOut(LongAdd(LongOf(a), LongOf(b)))

LMulV(a, b) ==
    IF Len(a) = 2 /\ Len(b) = 2 /\ FitsMul(a, b) THEN RMul(a, b)
    ELSE LongOut(LongMul(LongOf(a), LongOf(b)))

LAdd(a, b) == The({ LAddV(x[1], x[2]) : x \in { <<a, b>> } })

LMul(a, b) == The({ LMulV(x[1], x[2]) : x \in { <<a, b>> } })

(***************************************************************************)
(* PIDController (pid_controller.py).                                      *)
(***************************************************************************)
max_history == 1000

Zero == R(0)

\* PIDParameters defaults and PIDController.__init__: the state after construction.
NewPID(kp, ki, kd, output_min, output_max, sample_time) ==
    [ kp |-> kp, ki |-> ki, kd |-> kd,
      output_min |-> output_min, output_max |-> output_max,
      integral_limit |-> R(100),
      derivative_filter_time |-> Q(1, 10),
      deadband |-> Zero,
      sample_time |-> sample_time,
      last_error |-> Zero,
      integral |-> Zero,
      last_derivative |-> Zero,
      last_time_set |-> FALSE,
      auto_mode |-> TRUE,
      manual_output |-> Zero,
      initialized |-> FALSE,
      error_history |-> <<>>,
      output_history |-> <<>> ]

\* _apply_output_limits without its test of the lower limit.
ApplyOutputLimits_NoLower(p, output) ==
    IF GLt(p.output_max, output) THEN p.output_max ELSE output

\* _apply_output_limits: the upper limit is tested first.
ApplyOutputLimits(p, output) ==
    IF GLt(p.output_max, output) THEN p.output_max
    ELSE IF GLt(output, p.output_min) THEN p.output_min
    ELSE output

\* The anti-windup clamp of update (lines 129-132).
ClampIntegral(p, i) ==
    IF RLt(p.integral_limit, i) THEN p.integral_limit
    ELSE IF RLt(i, RNeg(p.integral_limit)) THEN RNeg(p.integral_limit)
    ELSE i

\* _update_performance_history: append, then evict the oldest beyond max_history.
UpdatePerformanceHistory(p, error, output) ==
    LET eh == Append(p.error_history, error)
        oh == Append(p.output_history, output)
    IN  IF Len(eh) > max_history
        THEN [p EXCEPT !.error_history = Tail(eh), !.output_history = Tail(oh)]
        ELSE [p EXCEPT !.error_history = eh, !.output_history = oh]

\* The dt update works with: the argument, or (dt is None) sample_time on the
\* first call and the wall-clock time since the previous call afterwards.
EffectiveDt(p, dt, elapsed) ==
    IF IsNone(dt)
    THEN (IF ~p.last_time_set THEN p.sample_time ELSE elapsed)
    ELSE dt

\* The filtered derivative of update (lines 137-149).
DerivativeFiltered(p, error, dt) ==
    IF RLt(Zero, dt)
    THEN LET derivative_raw == RDiv(RSub(error, p.last_error), dt)
         IN  IF RLt(Zero, p.derivative_filter_time)
             THEN LET alpha == RDiv(dt, RAdd(p.derivative_filter_time, dt))
                  IN  LAdd(RMul(alpha, derivative_raw),
                           LMul(RSub(R(1), alpha), p.last_derivative))
             ELSE derivative_raw
    ELSE Zero

\* The automatic branch of update (lines 117-171), on an initialized
\* controller: the deadband, the integral with its clamp, the filtered
\* derivative, the output and its limits, the back-calculation of the
\* integral (lines 158-159), the state and the history.
UpdateAuto(p, error0, dt) ==
    The({ The({ The({ The({
        [ctl |-> UpdatePerformanceHistory(
                     [p EXCEPT !.integral =
                                   IF output # output_limited /\ p.ki # Zero
                                   THEN RAdd(integral1,
                                             Plain(GMul(GDiv(GSub(output_limited, output),
                                                             p.ki), dt)))
                                   ELSE integral1,
                               !.last_derivative =
                                   IF RLt(Zero, dt) THEN derivative_filtered ELSE @,
                               !.last_error = error],
                     error, output_limited),
         out |-> output_limited] :
            output_limited \in { ApplyOutputLimits(p, output) } }) :
            output \in { GAdd(GAdd(GMul(p.kp, error), GMul(p.ki, integral1)),
                              GMul(p.kd, derivative_filtered)) } }) :
            integral1 \in { IF RLt(Zero, dt)
                            THEN ClampIntegral(p, RAdd(p.integral, RMul(error, dt)))
                            ELSE p.integral },
            derivative_filtered \in { DerivativeFiltered(p, error, dt) } }) :
            error \in { IF RLt(RAbs(error0), p.deadband) THEN Zero ELSE error0 } })

\* update whose manual branches pass manual_output through the output limits.
Update_ManualClamped(p, error, dt, elapsed) ==
    LET p0 == [p EXCEPT !.last_time_set = TRUE]
    IN  IF ~p.initialized
        THEN [ctl |-> [p0 EXCEPT !.last_error = error, !.initialized = TRUE],
              out |-> IF ~p.auto_mode
                      THEN ApplyOutputLimits(p, p.manual_output) ELSE Zero]
        ELSE IF ~p.auto_mode
        THEN [ctl |-> p0, out |-> ApplyOutputLimits(p, p.manual_output)]
        ELSE UpdateAuto(p0, error, EffectiveDt(p, dt, elapsed))

\* update(error, dt): the controller afterwards and the value returned.
Update(p, error, dt, elapsed) ==
    LET p0 == [p EXCEPT !.last_time_set = TRUE]
    IN  IF ~p.initialized
        THEN [ctl |-> [p0 EXCEPT !.last_error = error, !.initialized = TRUE],
              out |-> IF ~p.auto_mode THEN p.manual_output ELSE Zero]
        ELSE IF ~p.auto_mode
        THEN [ctl |-> p0, out |-> p.manual_output]
        ELSE UpdateAuto(p0, error, EffectiveDt(p, dt, elapsed))

\* The controller a raise inside the automatic branch of update leaves: the
\* writes of that branch in their order, each set holding the ones before it.
\* They are the integral (line 126), its clamp (lines 129-132), the filtered
\* derivative (lines 146, 149), the back-calculation of the integral (line
\* 162), last_error (line 165), and in _update_performance_history the error
\* appended while the output is not.
UpdateAutoFaults(p, error0, dt) ==
    UNION { UNION {
        { p,
          [p EXCEPT !.integral = IF RLt(Zero, dt) THEN RAdd(@, RMul(f.last_error, dt)) ELSE @],
          s,
          [s EXCEPT !.last_derivative = f.last_derivative],
          [s EXCEPT !.last_derivative = f.last_derivative, !.integral = f.integral],
          [s EXCEPT !.last_derivative = f.last_derivative, !.integral = f.integral,
                    !.last_error = f.last_error],
          [s EXCEPT !.last_derivative = f.last_derivative, !.integral = f.integral,
                    !.last_error = f.last_error,
                    !.error_history = Append(@, f.last_error)] } :
          s \in { [p EXCEPT !.integral =
                      IF RLt(Zero, dt)
                      THEN ClampIntegral(p, RAdd(@, RMul(f.last_error, dt)))
                      ELSE @] } } :
          f \in { UpdateAuto(p, error0, dt).ctl } }

\* The controller a raise inside update(error, dt) leaves: _last_time is
\* written first (line 105); then, on the first call, last_error before the
\* initialized flag (lines 109-110), in manual mode nothing more, and in
\* automatic mode the writes of that branch.
UpdateFaults(p, error, dt, elapsed) ==
    LET p0 == [p EXCEPT !.last_time_set = TRUE]
    IN  IF ~p.initialized
        THEN { p0, [p0 EXCEPT !.last_error = error] }
        ELSE IF ~p.auto_mode
        THEN { p0 }
        ELSE UpdateAutoFaults(p0, error, EffectiveDt(p, dt, elapsed))

\* set_parameters(kp, ki, kd): None leaves a gain as it is.
SetParameters(p, kp, ki, kd) ==
    [p EXCEPT !.kp = IF IsNone(kp) THEN @ ELSE kp,
              !.ki = IF IsNone(ki) THEN @ ELSE ki,
              !.kd = IF IsNone(kd) THEN @ ELSE kd]

\* set_output_limits(min_output, max_output)
SetOutputLimits(p, min_output, max_output) ==
    [p EXCEPT !.output_min = min_output, !.output_max = max_output]

\* set_auto_mode that stores manual_output on every call.
SetAutoMode_AlwaysStores(p, auto, manual_output) ==
    LET p1 == IF auto /\ ~p.auto_mode
              THEN [p EXCEPT !.integral =
                        IF p.ki # Zero THEN Plain(GDiv(manual_output, p.ki)) ELSE Zero]
              ELSE p
    IN  [p1 EXCEPT !.auto_mode = auto, !.manual_output = manual_output]

\* set_auto_mode(auto, manual_output)
SetAutoMode(p, auto, manual_output) ==
    LET p1 == IF auto /\ ~p.auto_mode
              THEN [p EXCEPT !.integral =
                        IF p.ki # Zero THEN Plain(GDiv(manual_output, p.ki)) ELSE Zero]
              ELSE IF ~auto /\ p.auto_mode
              THEN [p EXCEPT !.manual_output = manual_output]
              ELSE p
    IN  [p1 EXCEPT !.auto_mode = auto]

\* reset() that also puts the controller back into automatic mode with a
\* manual output of 0.
Reset_ClearsMode(p) ==
    [p EXCEPT !.last_error = Zero, !.integral = Zero, !.last_derivative = Zero,
              !.last_time_set = FALSE, !.initialized = FALSE,
              !.error_history = <<>>, !.output_history = <<>>,
              !.auto_mode = TRUE, !.manual_output = Zero]

\* reset() that leaves the controller initialized.
Reset_StaysInitialized(p) ==
    [p EXCEPT !.last_error = Zero, !.integral = Zero, !.last_derivative = Zero,
              !.last_time_set = FALSE,
              !.error_history = <<>>, !.output_history = <<>>]

\* reset()
Reset(p) ==
    [p EXCEPT !.last_error = Zero, !.integral = Zero, !.last_derivative = Zero,
              !.last_time_set = FALSE, !.initialized = FALSE,
              !.error_history = <<>>, !.output_history = <<>>]

(***************************************************************************)
(* auto_tune (pid_controller.py).  The process-variable function and the   *)
(* wall clock are the environment: a reading profile says what the         *)
(* function returns on its i-th call within one oscillation test, and the  *)
(* clock advances by sample_time in every pass of the test loop, which     *)
(* sleeps that long.  The caller is parked in that time.sleep, and other   *)
(* callers' operations on the controller fall between two passes: the      *)
(* call is followed from one sleep to the next, its locals kept in the     *)
(* search state s = [ctl, setpoint, run, kp, ki, kd, gain, levels, pass,   *)
(* outcome]: the controller, the arguments, original_params, the gain, the *)
(* oscillation tests started, the passes made in the present test, and     *)
(* "asleep" or how the search has ended.                                   *)
(***************************************************************************)
test_duration == 30

gain_limit == 100

min_measurements == 10

\* process_variable_func(): "steady" returns the setpoint every time, "step"
\* returns the setpoint nine times and setpoint + 100 from the tenth call on,
\* "raise" raises.
Reading(profile, setpoint, i) ==
    IF profile = "step" /\ i >= 10 THEN RAdd(setpoint, R(100)) ELSE setpoint

\* Passes of the loop "while time.time() - start_time < test_duration" with
\* a positive sample_time: the least k >= 1 with k * sample_time >=
\* test_duration.
TestPasses(p) ==
    LET n == test_duration * p.sample_time[2]
        d == p.sample_time[1]
        k == (n + d - 1) \div d
    IN  IF k < 1 THEN 1 ELSE k

\* The profile of the present oscillation test: process_variable_func
\* follows "steady" in the first run[1] tests and run[2] afterwards.
TestProfile(s) == IF s.levels <= s.run[1] THEN "steady" ELSE s.run[2]

\* One pass of the loop of _test_for_oscillation up to its sleep (lines
\* 385-388): the i-th reading of the test and the update on its error,
\* sample_time after the previous update.
TestPass(p, setpoint, profile, i) ==
    Update(p, RSub(setpoint, Reading(profile, setpoint, i)), NoneR,
           RAbs(p.sample_time)).ctl

\* The sum and the sum of squares of the first k readings of a test.
RECURSIVE ReadingSums(_, _, _)
ReadingSums(profile, setpoint, k) ==
    IF k = 0 THEN <<Zero, Zero>>
    ELSE The({ <<RAdd(w[1], x), RAdd(w[2], RMul(x, x))>> :
                 w \in { ReadingSums(profile, setpoint, k - 1) },
                 x \in { Reading(profile, setpoint, k) } })

\* The verdict of _test_for_oscillation (lines 392-402): fewer than 10
\* measurements are no oscillation; otherwise the coefficient of variation
\* sqrt(variance)/|mean| is compared with 0.1, that is variance with
\* mean^2/100 (statistics.variance divides by n - 1).
OscillationDetected(n, sum, sumsq) ==
    IF n < min_measurements THEN FALSE
    ELSE LET mean == RDiv(sum, R(n))
             variance == RDiv(RSub(sumsq, RMul(sum, mean)), R(n - 1))
         IN  IF mean = Zero THEN FALSE
             ELSE RLt(RDiv(RMul(mean, mean), R(100)), variance)

\* The verdict of the test that has made its passes.
TestVerdict(s) ==
    The({ OscillationDetected(s.pass, w[1], w[2]) :
            w \in { ReadingSums(TestProfile(s), s.setpoint, s.pass) } })

\* A gain search whose gain is never increased.
NextGain_NoIncrease(gain) == gain

\* gain *= 1.2
NextGain(gain) == GMul(gain, Q(6, 5))

\* _measure_oscillation_period
MeasureOscillationPeriod(p) == RMul(RMul(R(2), p.sample_time), R(50))

\* Gain levels below gain_limit: 1.2^25 < 100 <= 1.2^26.
MaxLevels == 26

\* Oscillation tests after which a call is followed no further; the loop
\* leaves earlier, by its own condition.
MaxSearch == 32

\* _find_ultimate_parameters up to its while loop (lines 342-350).
SearchStart(p, setpoint, run) ==
    [ctl |-> SetParameters(p, R(1), R(0), R(0)), setpoint |-> setpoint,
     run |-> run, kp |-> p.kp, ki |-> p.ki, kd |-> p.kd, gain |-> R(1),
     levels |-> 0, pass |-> 0, outcome |-> "searching"]

\* From the test of "while gain < 100.0 and not oscillation_detected" to the
\* first sleep of the oscillation test (lines 352-357, 381-389): the loop
\* is left at the gain limit; otherwise set_parameters(kp=gain) and the
\* first pass of the test.  The process-variable function may raise (before
\* any update of that test), and time.sleep raises ValueError on a negative
\* sample_time, at the end of the first pass: one reading taken, one update
\* made.  (The clock does not run backwards: the time since the previous
\* update is taken as |sample_time| there.)
SearchLevel(s) ==
    IF ~GLt(s.gain, R(gain_limit)) THEN [s EXCEPT !.outcome = "none"]
    ELSE The({ IF TestProfile(t) = "raise" THEN [t EXCEPT !.outcome = "raised"]
               ELSE [t EXCEPT !.ctl = TestPass(@, t.setpoint, TestProfile(t), 1),
                              !.pass = 1,
                              !.outcome = IF RLt(t.ctl.sample_time, Zero)
                                          THEN "raised" ELSE "asleep"] :
                 t \in { [s EXCEPT !.ctl = SetParameters(@, s.gain, NoneR, NoneR),
                                   !.levels = @ + 1, !.pass = 0] } })

\* _test_for_oscillation from the return of a sleep to the next sleep (lines
\* 384-389), or, when the test duration has elapsed, its verdict and the
\* search going on: a detection leaves the while loop, and without one
\* gain *= 1.2 and the next turn (lines 352-361).
TestForOscillation(s) ==
    IF s.pass < TestPasses(s.ctl)
    THEN [s EXCEPT !.ctl = TestPass(@, s.setpoint, TestProfile(s), s.pass + 1),
                   !.pass = @ + 1]
    ELSE IF TestVerdict(s) THEN [s EXCEPT !.outcome = "detected"]
    ELSE SearchLevel([s EXCEPT !.gain = NextGain(@)])

\* The end of _find_ultimate_parameters, the search over (lines 363-372):
\* the values returned (used after a detection) and, in the finally clause,
\* the original gains again.
FindUltimateParameters(s) ==
    [ctl |-> SetParameters(s.ctl, s.kp, s.ki, s.kd), outcome |-> s.outcome,
     ku |-> s.gain, tu |-> MeasureOscillationPeriod(s.ctl), levels |-> s.levels]

\* The try block of auto_tune from the end of the search (lines 313-328): the
\* controller afterwards, how the block is left ("True" and "False" by a
\* return of that value, "raise" by an exception) and the oscillation tests
\* started.  An exception of _find_ultimate_parameters leaves the block as
\* it is, and ki = 2.0 * kp / tu raises ZeroDivisionError when tu is 0.
AutoTuneTry(s) ==
    The({ IF f.outcome = "raised"
          THEN [ctl |-> f.ctl, result |-> "raise", levels |-> f.levels]
          ELSE IF f.outcome # "detected"
          THEN [ctl |-> f.ctl, result |-> "False", levels |-> f.levels]
          ELSE IF f.tu = Zero
          THEN [ctl |-> f.ctl, result |-> "raise", levels |-> f.levels]
          ELSE LET kp == GMul(Q(3, 5), f.ku)
                   ki == GDiv(GMul(R(2), kp), f.tu)
                   kd == GDiv(GMul(kp, f.tu), R(8))
               IN  [ctl |-> SetParameters(f.ctl, kp, ki, kd), result |-> "True",
                    levels |-> f.levels] :
            f \in { FindUltimateParameters(s) } })

\* auto_tune without its except clause: the exception goes on to the caller.
AutoTune_NoExcept(s) ==
    The({ [ctl |-> t.ctl, result |-> t.result, caught |-> FALSE, levels |-> t.levels] :
            t \in { AutoTuneTry(s) } })

\* auto_tune from the end of the search: the try block, and "except
\* Exception: return False" for an exception that leaves it (lines 330-332).
\* caught says that the except clause ran.
AutoTune(s) ==
    The({ [ctl |-> t.ctl,
           result |-> IF t.result = "raise" THEN "False" ELSE t.result,
           caught |-> t.result = "raise",
           levels |-> t.levels] :
            t \in { AutoTuneTry(s) } })

(***************************************************************************)
(* SafetySystem (safety_system.py).                                        *)
(***************************************************************************)
\* SafetyLimits: the dataclass defaults.
DefaultLimits ==
    [ max_pressure |-> R(35), min_pressure |-> R(5), max_temperature |-> R(80),
      max_flow_rate |-> R(200), max_oil_in_water |-> R(1000) ]

\* The number of tenths "{x:.1f}" prints: the nearest tenth, a tie to the even one.
Tenths(x) ==
    LET t == 10 * x[1]
        q == t \div x[2]
        r == t % x[2]
    IN  IF 2 * r < x[2] THEN q
        ELSE IF 2 * r > x[2] THEN q + 1
        ELSE IF q % 2 = 0 THEN q ELSE q + 1

Violation(rule, value) == [rule |-> rule, tenths |-> Tenths(value)]

\* The violations list with the high-pressure test written >= instead of >.
Violations_NonStrict(lim, v) ==
    LET v1 == IF RLe(lim.max_pressure, v.pressure_inlet)
              THEN <<Violation("High inlet pressure", v.pressure_inlet)>> ELSE <<>>
        v2 == IF RLt(v.pressure_inlet, lim.min_pressure)
              THEN <<Violation("Low inlet pressure", v.pressure_inlet)>> ELSE <<>>
        v3 == IF RLt(lim.max_temperature, v.temperature)
              THEN <<Violation("High temperature", v.temperature)>> ELSE <<>>
        v4 == IF RLt(lim.max_flow_rate, v.flow_rate)
              THEN <<Violation("High flow rate", v.flow_rate)>> ELSE <<>>
        v5 == IF RLt(lim.max_oil_in_water, v.oil_in_water_ppm)
              THEN <<Violation("High oil in water", v.oil_in_water_ppm)>> ELSE <<>>
    IN  v1 \o v2 \o v3 \o v4 \o v5

\* The violations list check_safety builds (lines 45-64): five independent tests.
Violations(lim, v) ==
    LET v1 == IF RLt(lim.max_pressure, v.pressure_inlet)
              THEN <<Violation("High inlet pressure", v.pressure_inlet)>> ELSE <<>>
        v2 == IF RLt(v.pressure_inlet, lim.min_pressure)
              THEN <<Violation("Low inlet pressure", v.pressure_inlet)>> ELSE <<>>
        v3 == IF RLt(lim.max_temperature, v.temperature)
              THEN <<Violation("High temperature", v.temperature)>> ELSE <<>>
        v4 == IF RLt(lim.max_flow_rate, v.flow_rate)
              THEN <<Violation("High flow rate", v.flow_rate)>> ELSE <<>>
        v5 == IF RLt(lim.max_oil_in_water, v.oil_in_water_ppm)
              THEN <<Violation("High oil in water", v.oil_in_water_ppm)>> ELSE <<>>
    IN  v1 \o v2 \o v3 \o v4 \o v5

\* check_safety with a latching trip: a passing check leaves the trip as it was.
CheckSafety_Latched(lim, v, old_violations, old_trip) ==
    LET violations == Violations(lim, v)
    IN  IF violations # <<>>
        THEN [ok |-> FALSE, safety_violations |-> violations, trip_active |-> TRUE]
        ELSE [ok |-> TRUE, safety_violations |-> old_violations, trip_active |-> old_trip]

\* check_safety (lines 66-75): the result and the evaluator's state afterwards.
CheckSafety(lim, v, old_violations, old_trip) ==
    LET violations == Violations(lim, v)
    IN  IF violations # <<>>
        THEN [ok |-> FALSE, safety_violations |-> violations, trip_active |-> TRUE]
        ELSE [ok |-> TRUE, safety_violations |-> <<>>, trip_active |-> FALSE]

\* ProcessVariables: the dataclass defaults (last_update is not modelled).
DefaultPV ==
    [ flow_rate |-> R(0), pressure_inlet |-> R(0), pressure_outlet |-> R(0),
      temperature |-> R(20), density_measurement |-> R(850),
      gas_volume_fraction |-> R(0), water_cut |-> R(0), oil_in_water_ppm |-> R(0),
      inlet_valve_position |-> R(0), outlet_valve_position |-> R(0),
      sample_valve_state |-> FALSE, pump_speed |-> R(0),
      flow_setpoint |-> R(100), pressure_setpoint |-> R(25),
      temperature_setpoint |-> R(60),
      system_running |-> FALSE, emergency_stop |-> FALSE,
      maintenance_mode |-> FALSE, alarm_active |-> FALSE ]

\* What is recorded of a PIDController call: the operation, and for update the
\* error passed, the value returned, whether it was the first call since
\* construction or reset, the mode it ran in, whether reset() was the call
\* before it, and the manual output of a manual -> automatic switch made by
\* the call before it (NoneR when there was none).
\* No auto_tune call has been made yet.
\* tune: the auto_tune call in progress or the last one made.  phase says
\* whether the caller is parked in a time.sleep of the call ("asleep"), and
\* setpoint, run, gain and pass are its locals then; result, ok and caught
\* say how the call returned; levels counts its oscillation tests; kp, ki,
\* kd are original_params; before is the controller when the call was made
\* and inside the number of other callers' operations since.
NoTune ==
    [called |-> FALSE, result |-> "none", ok |-> FALSE, caught |-> FALSE,
     levels |-> 0, kp |-> NoneR, ki |-> NoneR, kd |-> NoneR,
     phase |-> "idle", setpoint |-> Zero, run |-> <<0, "steady">>,
     gain |-> R(1), pass |-> 0, inside |-> 0, before |-> <<>>]

NoCall ==
    [op |-> "none", err |-> Zero, out |-> Zero, first |-> FALSE, auto |-> FALSE,
     after_reset |-> FALSE, transfer |-> NoneR]

NoCheck == [op |-> "none", ok |-> TRUE, before |-> FALSE]

(***************************************************************************)
(* PLCController (main_controller.py): the pure steps of a scan cycle.     *)
(***************************************************************************)
oil_density == 850

water_density == 1000

\* _calculate_multiphase_properties converting the water cut itself to ppm
\* instead of its complement.
CalculateMultiphaseProperties_WaterPpm(v) ==
    LET measured_density == v.density_measurement
        gas_volume_fraction ==
            IF RLt(measured_density, R(oil_density))
            THEN RMul(RDiv(RSub(R(oil_density), measured_density), R(oil_density)),
                      R(100))
            ELSE Zero
        liquid_density ==
            RMul(measured_density, RSub(R(1), RDiv(gas_volume_fraction, R(100))))
        water_cut ==
            IF RLt(R(oil_density), liquid_density)
            THEN RMul(RDiv(RSub(liquid_density, R(oil_density)),
                           RSub(R(water_density), R(oil_density))), R(100))
            ELSE Zero
        oil_in_water_ppm ==
            IF RLt(R(50), water_cut)
            THEN RMul(water_cut, R(10000))
            ELSE Zero
    IN  [v EXCEPT !.gas_volume_fraction = gas_volume_fraction,
                  !.water_cut = water_cut,
                  !.oil_in_water_ppm = oil_in_water_ppm]

\* _calculate_multiphase_properties
CalculateMultiphaseProperties(v) ==
    LET measured_density == v.density_measurement
        gas_volume_fraction ==
            IF RLt(measured_density, R(oil_density))
            THEN RMul(RDiv(RSub(R(oil_density), measured_density), R(oil_density)),
                      R(100))
            ELSE Zero
        liquid_density ==
            RMul(measured_density, RSub(R(1), RDiv(gas_volume_fraction, R(100))))
        water_cut ==
            IF RLt(R(oil_density), liquid_density)
            THEN RMul(RDiv(RSub(liquid_density, R(oil_density)),
                           RSub(R(water_density), R(oil_density))), R(100))
            ELSE Zero
        oil_in_water_ppm ==
            IF RLt(R(50), water_cut)
            THEN RMul(RSub(R(100), water_cut), R(10000))
            ELSE Zero
    IN  [v EXCEPT !.gas_volume_fraction = gas_volume_fraction,
                  !.water_cut = water_cut,
                  !.oil_in_water_ppm = oil_in_water_ppm]

\* max(lo, min(hi, x)) as _input_scan and _output_scan write it.
Clamp(lo, hi, x) == RMax(lo, RMin(hi, x))

\* _input_scan: noise is the triple of random.uniform draws.
InputScan(v, noise) ==
    IF v.system_running
    THEN CalculateMultiphaseProperties(
            [v EXCEPT !.flow_rate = Clamp(R(0), R(300), RAdd(@, noise[1])),
                      !.pressure_inlet = Clamp(R(0), R(50), RAdd(@, noise[2])),
                      !.temperature = Clamp(R(10), R(100), RAdd(@, noise[3]))])
    ELSE v

\* _emergency_shutdown opening the outlet valve by a further 100 % instead of
\* setting it to 100 %.
EmergencyShutdown_Additive(v) ==
    [v EXCEPT !.system_running = FALSE,
              !.pump_speed = R(0),
              !.sample_valve_state = FALSE,
              !.inlet_valve_position = R(0),
              !.outlet_valve_position = RAdd(@, R(100))]

\* _emergency_shutdown that leaves the pump running.
EmergencyShutdown_PumpOn(v) ==
    [v EXCEPT !.system_running = FALSE,
              !.sample_valve_state = FALSE,
              !.inlet_valve_position = R(0),
              !.outlet_valve_position = R(100)]

\* _emergency_shutdown that raises the process alarm as well.
EmergencyShutdown_Alarm(v) ==
    [v EXCEPT !.system_running = FALSE,
              !.pump_speed = R(0),
              !.sample_valve_state = FALSE,
              !.inlet_valve_position = R(0),
              !.outlet_valve_position = R(100),
              !.alarm_active = TRUE]

\* _emergency_shutdown
EmergencyShutdown(v) ==
    [v EXCEPT !.system_running = FALSE,
              !.pump_speed = R(0),
              !.sample_valve_state = FALSE,
              !.inlet_valve_position = R(0),
              !.outlet_valve_position = R(100)]

\* _quality_control without its oil-in-water test.
QualityControl_NoOil(v) ==
    LET alarms ==
            (IF RLt(R(95), v.gas_volume_fraction) THEN <<"HIGH_GAS_CONTENT">> ELSE <<>>)
         \o (IF RLt(R(90), v.water_cut) THEN <<"HIGH_WATER_CUT">> ELSE <<>>)
    IN  [v EXCEPT !.alarm_active = (Len(alarms) > 0)]

\* _quality_control
QualityControl(v) ==
    LET alarms ==
            (IF RLt(R(1000), v.oil_in_water_ppm) THEN <<"HIGH_OIL_IN_WATER">> ELSE <<>>)
         \o (IF RLt(R(95), v.gas_volume_fraction) THEN <<"HIGH_GAS_CONTENT">> ELSE <<>>)
         \o (IF RLt(R(90), v.water_cut) THEN <<"HIGH_WATER_CUT">> ELSE <<>>)
    IN  [v EXCEPT !.alarm_active = (Len(alarms) > 0)]

\* _output_scan that closes the outlet valve again while the system runs.
OutputScan_ClosesOutlet(v) ==
    [v EXCEPT !.pump_speed = Clamp(R(0), R(100), @),
              !.inlet_valve_position = Clamp(R(0), R(100), @),
              !.outlet_valve_position =
                  IF v.system_running THEN R(0) ELSE Clamp(R(0), R(100), @)]

\* _output_scan
OutputScan(v) ==
    [v EXCEPT !.pump_speed = Clamp(R(0), R(100), @),
              !.inlet_valve_position = Clamp(R(0), R(100), @),
              !.outlet_valve_position = Clamp(R(0), R(100), @)]

\* timedelta.seconds of a difference of whole seconds: the days are dropped.
TimedeltaSeconds(delta) == delta % 86400

\* _sampling_sequence up to its await: whether the sample valve is opened.
SamplingStarts(v, t, last) ==
    /\ ~(last # -1 /\ TimedeltaSeconds(t - last) < 30)
    /\ RLt(RAbs(RSub(v.flow_rate, v.flow_setpoint)), R(5))
    /\ RLt(RAbs(RSub(v.pressure_inlet, v.pressure_setpoint)), R(2))

\* scan_time of the default configuration.
scan_time == Q(1, 10)

\* The two control loops of _process_logic (lines 219-227).
ControlLoops(v, fc, prc) ==
    LET flow_error == RSub(v.flow_setpoint, v.flow_rate)
        f == Update(fc, flow_error, scan_time, scan_time)
        v1 == [v EXCEPT !.pump_speed = f.out]
        pressure_error == RSub(v1.pressure_setpoint, v1.pressure_inlet)
        g == Update(prc, pressure_error, scan_time, scan_time)
    IN  [pv |-> [v1 EXCEPT !.inlet_valve_position = g.out],
         flow |-> f.ctl, pressure |-> g.ctl]

(***************************************************************************)
(* SpecPLC: the scan loop of start_controller as a coroutine.  It yields   *)
(* to the event loop inside asyncio.sleep (the sampling window and the     *)
(* end-of-cycle sleep) and while it awaits a data logger that suspends;    *)
(* operator commands and sensor writes run before the loop is started,     *)
(* while it is suspended, or after it has returned.                        *)
(***************************************************************************)
\* Scan cycles started over a run.
MaxCycles == 2

\* Operator commands and sensor writes made over a run, counted in ncalls.
MaxCommands == 4

\* SafetySystem(config['safety']): the default configuration, and one whose
\* oil-in-water limit lies above the quality-alarm threshold.
LimitConfigs ==
    { DefaultLimits, [DefaultLimits EXCEPT !.max_oil_in_water = R(500000)] }

\* <<flow_rate, pressure_inlet, temperature, density_measurement>> as the
\* sensor collaborator writes them into the process variables.
SensorProfiles ==
    { <<R(100), R(25), R(60), R(850)>>,
      <<R(100), Q(351, 10), R(60), R(850)>>,
      <<R(100), R(25), R(60), Q(99982, 100)>>,
      <<R(100), R(25), R(60), R(940)>> }

\* Draws of random.uniform(-2, 2), (-0.5, 0.5), (-1, 1) in _input_scan.
NoiseSet == { <<R(0), R(0), R(0)>>, <<R(-2), Q(1, 2), R(1)>> }

\* Whole seconds the clock advances over one end-of-cycle sleep (line 153):
\* the sleep of at most scan_time = 0.1 s stays within the second, crosses
\* into the next one, or returns late because the event loop was busy.
SleepAdvance == { 0, 1, 2 }

\* The two controllers __init__ builds from the default configuration.
FlowControllerInit == NewPID(Q(3, 2), Q(3, 10), Q(1, 10), R(0), R(100), Q(1, 10))

PressureControllerInit == NewPID(R(2), Q(1, 2), Q(1, 5), R(0), R(100), Q(1, 10))

NewCycle ==
    [ at_check |-> DefaultPV, \* the process variables check_safety saw (before it runs:
                              \* those at the start of the cycle)
      estop |-> FALSE,       \* emergency_stop was set at the start of, or during, the cycle
      safety |-> "none",     \* "pass" or "trip" once check_safety has run
      control |-> FALSE,     \* the control step was entered
      quality |-> FALSE,     \* _quality_control ran
      sampled |-> FALSE,     \* a sampling window was opened
      clamped |-> FALSE,     \* _output_scan ran
      faulted |-> FALSE,     \* a step raised and _handle_controller_fault ran
      pushed |-> FALSE,      \* _communication_update ran
      logged |-> FALSE,      \* _log_data called the data logger
      shutdown |-> FALSE,    \* shutdown() ran while the cycle was in progress
      flow0 |-> FlowControllerInit,          \* the two controllers as they were
      pressure0 |-> PressureControllerInit ] \* when the cycle started

InitPLCVars ==
    /\ pv = DefaultPV
    /\ flow_controller = FlowControllerInit
    /\ pressure_controller = PressureControllerInit
    /\ running = FALSE
    /\ modbus_running = FALSE
    /\ opcua_running = FALSE
    /\ pc = "idle"
    /\ now = 0
    /\ last_sample_time = -1
    /\ current_time = 0
    /\ cycles = 0
    /\ cyc = NewCycle

InitSafetyVars ==
    /\ safety_violations = <<>>
    /\ trip_active = FALSE
    /\ last_check = NoCheck

InitPIDVars ==
    /\ last_call = NoCall
    /\ ncalls = 0
    /\ dt_pos = TRUE
    /\ tune = NoTune

\* PLCController() with the default configuration.
InitPLC ==
    /\ InitPLCVars
    /\ limits = DefaultLimits
    /\ InitSafetyVars
    /\ pid = NewPID(R(1), R(0), R(0), R(0), R(100), Q(1, 10))
    /\ InitPIDVars

\* The event loop can run another callback: start_controller has not been
\* called yet, its coroutine is suspended at an await, or it has returned.
Suspended == pc \in {"idle", "sampling", "log_await", "sleeping", "exited"}

\* start_controller up to the loop (lines 125-130), called for the first time
\* or again after an earlier call has returned.
StartController ==
    /\ pc \in {"idle", "exited"}
    /\ running' = TRUE
    /\ modbus_running' = TRUE
    /\ opcua_running' = TRUE
    /\ pc' = "top"
    /\ UNCHANGED <<pidVars, pv, safetyVars, flow_controller, pressure_controller,
                   now, last_sample_time, current_time, cycles, cyc>>

\* while self.running (line 133): a new cycle starts, or the loop exits.
LoopTop ==
    /\ pc = "top"
    /\ IF running
       THEN /\ cycles < MaxCycles
            /\ cycles' = cycles + 1
            /\ cyc' = [NewCycle EXCEPT !.estop = pv.emergency_stop, !.at_check = pv,
                                       !.flow0 = flow_controller,
                                       !.pressure0 = pressure_controller]
            /\ pc' = "input_scan"
       ELSE /\ pc' = "exited"
            /\ UNCHANGED <<cycles, cyc>>
    /\ UNCHANGED <<pidVars, pv, safetyVars, flow_controller, pressure_controller,
                   running, modbus_running, opcua_running, now, last_sample_time,
                   current_time>>

InputScanStep ==
    /\ pc = "input_scan"
    /\ \E noise \in NoiseSet : pv' = InputScan(pv, noise)
    /\ pc' = "process_logic"
    /\ UNCHANGED <<pidVars, safetyVars, flow_controller, pressure_controller,
                   running, modbus_running, opcua_running, now, last_sample_time,
                   current_time, cycles, cyc>>

\* _process_logic up to its return or to the await inside _sampling_sequence.
ProcessLogicStep ==
    /\ pc = "process_logic"
    /\ \E chk \in {CheckSafety(limits, pv, safety_violations, trip_active)} :
          /\ safety_violations' = chk.safety_violations
          /\ trip_active' = chk.trip_active
          /\ IF ~chk.ok \/ pv.emergency_stop
             THEN /\ pv' = EmergencyShutdown(pv)
                  /\ cyc' = [cyc EXCEPT !.at_check = pv,
                                        !.safety = IF chk.ok THEN "pass" ELSE "trip"]
                  /\ pc' = "output_scan"
                  /\ UNCHANGED <<flow_controller, pressure_controller, current_time>>
             ELSE IF pv.system_running /\ ~pv.maintenance_mode
             THEN \E c \in {ControlLoops(pv, flow_controller, pressure_controller)} :
                     /\ flow_controller' = c.flow
                     /\ pressure_controller' = c.pressure
                     /\ IF SamplingStarts(c.pv, now, last_sample_time)
                        THEN /\ pv' = [c.pv EXCEPT !.sample_valve_state = TRUE]
                             /\ current_time' = now
                             /\ cyc' = [cyc EXCEPT !.at_check = pv, !.safety = "pass",
                                                   !.control = TRUE, !.sampled = TRUE]
                             /\ pc' = "sampling"
                        ELSE /\ pv' = QualityControl(c.pv)
                             /\ cyc' = [cyc EXCEPT !.at_check = pv, !.safety = "pass",
                                                   !.control = TRUE, !.quality = TRUE]
                             /\ pc' = "output_scan"
                             /\ UNCHANGED current_time
             ELSE /\ cyc' = [cyc EXCEPT !.at_check = pv, !.safety = "pass"]
                  /\ pc' = "output_scan"
                  /\ UNCHANGED <<pv, flow_controller, pressure_controller, current_time>>
    /\ UNCHANGED <<pidVars, limits, last_check, running, modbus_running,
                   opcua_running, now, last_sample_time, cycles>>

\* The rest of _sampling_sequence after asyncio.sleep(5), then _quality_control.
SamplingWake ==
    /\ pc = "sampling"
    /\ now' = now + 5
    /\ last_sample_time' = current_time
    /\ pv' = QualityControl([pv EXCEPT !.sample_valve_state = FALSE])
    /\ cyc' = [cyc EXCEPT !.quality = TRUE]
    /\ pc' = "output_scan"
    /\ UNCHANGED <<pidVars, safetyVars, flow_controller, pressure_controller,
                   running, modbus_running, opcua_running, current_time, cycles>>

OutputScanStep ==
    /\ pc = "output_scan"
    /\ pv' = OutputScan(pv)
    /\ cyc' = [cyc EXCEPT !.clamped = TRUE]
    /\ pc' = "communication"
    /\ UNCHANGED <<pidVars, safetyVars, flow_controller, pressure_controller,
                   running, modbus_running, opcua_running, now, last_sample_time,
                   current_time, cycles>>

\* _communication_update called ahead of _output_scan.
CommunicationUpdateStep_BeforeClamp ==
    /\ pc = "output_scan"
    /\ cyc' = [cyc EXCEPT !.pushed = TRUE]
    /\ pc' = "log"
    /\ UNCHANGED <<pidVars, pv, safetyVars, flow_controller, pressure_controller,
                   running, modbus_running, opcua_running, now, last_sample_time,
                   current_time, cycles>>

\* _communication_update: the stub servers store the snapshot (not modelled);
\* their update methods hold no await and return at once.
CommunicationUpdateStep ==
    /\ pc = "communication"
    /\ cyc' = [cyc EXCEPT !.pushed = TRUE]
    /\ pc' = "log"
    /\ UNCHANGED <<pidVars, pv, safetyVars, flow_controller, pressure_controller,
                   running, modbus_running, opcua_running, now, last_sample_time,
                   current_time, cycles>>

\* _log_data: await self.data_logger.log_process_data(self.pv).  The data
\* logger is an external collaborator: it returns without suspending, or
LogDataStep ==
    /\ pc = "log"
    /\ cyc' = [cyc EXCEPT !.logged = TRUE]
    /\ pc' = "timing"
    /\ UNCHANGED <<pidVars, pv, safetyVars, flow_controller, pressure_controller,
                   running, modbus_running, opcua_running, now, last_sample_time,
                   current_time, cycles>>

\* it suspends, and the loop awaits its completion while the event loop runs
\* other callbacks.
LogDataSuspend ==
    /\ pc = "log"
    /\ cyc' = [cyc EXCEPT !.logged = TRUE]
    /\ pc' = "log_await"
    /\ UNCHANGED <<pidVars, pv, safetyVars, flow_controller, pressure_controller,
                   running, modbus_running, opcua_running, now, last_sample_time,
                   current_time, cycles>>

\* The data logger completes and the awaiting loop resumes.
LogDataReturn ==
    /\ pc = "log_await"
    /\ pc' = "timing"
    /\ UNCHANGED <<pidVars, pv, safetyVars, flow_controller, pressure_controller,
                   running, modbus_running, opcua_running, now, last_sample_time,
                   current_time, cycles, cyc>>

\* The process variables _input_scan has reached when one of its statements
\* raises: nothing done yet; flow_rate varied, pressure_inlet too, temperature
\* too (lines 164-166); the three of them clamped one after the other (lines
\* 169-171); and then, inside _calculate_multiphase_properties,
\* gas_volume_fraction stored (a raise at the liquid density, line 194) or
\* water_cut stored as well (a raise at the oil-in-water conversion).  Only
\* a started system has statements that can raise after the first.
InputScanFaults(v, noise) ==
    {v} \cup
    (IF v.system_running
     THEN UNION { UNION {
            { [v EXCEPT !.flow_rate = RAdd(@, noise[1])],
              [v EXCEPT !.flow_rate = RAdd(@, noise[1]),
                        !.pressure_inlet = RAdd(@, noise[2])],
              [v EXCEPT !.flow_rate = RAdd(@, noise[1]),
                        !.pressure_inlet = RAdd(@, noise[2]),
                        !.temperature = RAdd(@, noise[3])],
              [v EXCEPT !.flow_rate = c.flow_rate,
                        !.pressure_inlet = RAdd(@, noise[2]),
                        !.temperature = RAdd(@, noise[3])],
              [v EXCEPT !.flow_rate = c.flow_rate,
                        !.pressure_inlet = c.pressure_inlet,
                        !.temperature = RAdd(@, noise[3])],
              c,
              [c EXCEPT !.gas_volume_fraction = w.gas_volume_fraction],
              [c EXCEPT !.gas_volume_fraction = w.gas_volume_fraction,
                        !.water_cut = w.water_cut] } :
              c \in { [w EXCEPT !.gas_volume_fraction = v.gas_volume_fraction,
                                !.water_cut = v.water_cut,
                                !.oil_in_water_ppm = v.oil_in_water_ppm] } } :
              w \in { InputScan(v, noise) } }
     ELSE {})

\* What _process_logic has done when one of its statements raises before the
\* sampling window: inside check_safety, whose tests work on a local list
\* (nothing stored yet); after a passed check, at the flow error; inside the
\* flow loop's update, the controller partly written; at the pressure error,
\* the flow loop done and pump_speed written; inside the pressure loop's
\* update; or in _sampling_sequence before the valve is opened or in
\* _quality_control, both loops done.  After a failed check or with
\* emergency_stop set only _emergency_shutdown runs, which holds a log call
\* and assignments of constants and has nothing that raises.
ProcessLogicFaults(v, fc, prc, lim, old_violations, old_trip, t, last) ==
    UNION {
        { [pv |-> v, flow |-> fc, pressure |-> prc,
           safety_violations |-> old_violations, trip_active |-> old_trip,
           checked |-> FALSE, control |-> FALSE] }
        \cup
        (IF chk.ok /\ ~v.emergency_stop /\ v.system_running /\ ~v.maintenance_mode
         THEN UNION {
                { [pv |-> v, flow |-> fc, pressure |-> prc,
                   safety_violations |-> chk.safety_violations,
                   trip_active |-> chk.trip_active,
                   checked |-> TRUE, control |-> TRUE],
                  [pv |-> [v EXCEPT !.pump_speed = c.pv.pump_speed],
                   flow |-> c.flow, pressure |-> prc,
                   safety_violations |-> chk.safety_violations,
                   trip_active |-> chk.trip_active,
                   checked |-> TRUE, control |-> TRUE],
                  [pv |-> c.pv, flow |-> c.flow, pressure |-> c.pressure,
                   safety_violations |-> chk.safety_violations,
                   trip_active |-> chk.trip_active,
                   checked |-> TRUE, control |-> TRUE] }
                \cup
                { [pv |-> v, flow |-> f, pressure |-> prc,
                   safety_violations |-> chk.safety_violations,
                   trip_active |-> chk.trip_active,
                   checked |-> TRUE, control |-> TRUE] :
                    f \in UpdateFaults(fc, RSub(v.flow_setpoint, v.flow_rate),
                                       scan_time, scan_time) }
                \cup
                { [pv |-> [v EXCEPT !.pump_speed = c.pv.pump_speed],
                   flow |-> c.flow, pressure |-> g,
                   safety_violations |-> chk.safety_violations,
                   trip_active |-> chk.trip_active,
                   checked |-> TRUE, control |-> TRUE] :
                    g \in UpdateFaults(prc, RSub(v.pressure_setpoint, v.pressure_inlet),
                                       scan_time, scan_time) } :
                  c \in { ControlLoops(v, fc, prc) } }
         ELSE {}) :
          chk \in { CheckSafety(lim, v, old_violations, old_trip) } }

\* The process variables _output_scan has reached when one of its statements
\* raises: none, one or two of the outputs clamped.
OutputScanFaults(v) ==
    { v,
      [v EXCEPT !.pump_speed = Clamp(R(0), R(100), @)],
      [v EXCEPT !.pump_speed = Clamp(R(0), R(100), @),
                !.inlet_valve_position = Clamp(R(0), R(100), @)] }

\* A step of the try block raises: except Exception, _handle_controller_fault,
\* _emergency_shutdown (lines 146-148, 318-321).  The handler works on what
\* the step had done when it raised; the steps before it are complete.  The
\* statements that raise are those that compute with the process variables
\* or call a collaborator; a raise during the sampling window is one in
\* _quality_control after it, and one while the data logger is awaited comes
\* from the logger.
CycleFault ==
    /\ \/ /\ pc = "input_scan"
          /\ \E noise \in NoiseSet : \E v \in InputScanFaults(pv, noise) :
                pv' = EmergencyShutdown(v)
          /\ cyc' = [cyc EXCEPT !.faulted = TRUE]
          /\ UNCHANGED <<safety_violations, trip_active, flow_controller,
                         pressure_controller, now, last_sample_time>>
       \/ /\ pc = "process_logic"
          /\ \E r \in ProcessLogicFaults(pv, flow_controller, pressure_controller,
                                         limits, safety_violations, trip_active,
                                         now, last_sample_time) :
                /\ pv' = EmergencyShutdown(r.pv)
                /\ flow_controller' = r.flow
                /\ pressure_controller' = r.pressure
                /\ safety_violations' = r.safety_violations
                /\ trip_active' = r.trip_active
                /\ cyc' = IF r.checked
                          THEN [cyc EXCEPT !.faulted = TRUE, !.at_check = pv,
                                           !.safety = "pass",
                                           !.control = r.control]
                          ELSE [cyc EXCEPT !.faulted = TRUE]
          /\ UNCHANGED <<now, last_sample_time>>
       \/ /\ pc = "sampling"
          /\ now' = now + 5
          /\ last_sample_time' = current_time
          /\ pv' = EmergencyShutdown(pv)
          /\ cyc' = [cyc EXCEPT !.faulted = TRUE]
          /\ UNCHANGED <<safety_violations, trip_active, flow_controller,
                         pressure_controller>>
       \/ /\ pc = "output_scan"
          /\ \E v \in OutputScanFaults(pv) : pv' = EmergencyShutdown(v)
          /\ cyc' = [cyc EXCEPT !.faulted = TRUE]
          /\ UNCHANGED <<safety_violations, trip_active, flow_controller,
                         pressure_controller, now, last_sample_time>>
       \/ /\ pc \in {"communication", "log", "log_await"}
          /\ pv' = EmergencyShutdown(pv)
          /\ cyc' = [cyc EXCEPT !.faulted = TRUE]
          /\ UNCHANGED <<safety_violations, trip_active, flow_controller,
                         pressure_controller, now, last_sample_time>>
    /\ pc' = "timing"
    /\ UNCHANGED <<pidVars, limits, last_check, running, modbus_running,
                   opcua_running, current_time, cycles>>

\* Maintain scan time (lines 151-155): sleep for the rest of the period, or,
\* on an overrun, go straight to the next iteration.  A cycle that held the
\* sampling window open has taken at least 5 s and always overruns.
MaintainScanTime ==
    /\ pc = "timing"
    /\ \/ /\ ~cyc.sampled
          /\ pc' = "sleeping"
       \/ pc' = "top"
    /\ cyc' = NewCycle
    /\ UNCHANGED <<pidVars, pv, safetyVars, flow_controller, pressure_controller,
                   running, modbus_running, opcua_running, now, last_sample_time,
                   current_time, cycles>>

\* The end-of-cycle asyncio.sleep returns.
WakeUp ==
    /\ pc = "sleeping"
    /\ \E d \in SleepAdvance : now' = now + d
    /\ pc' = "top"
    /\ UNCHANGED <<pidVars, pv, safetyVars, flow_controller, pressure_controller,
                   running, modbus_running, opcua_running, last_sample_time,
                   current_time, cycles, cyc>>

(***************************************************************************)
(* Operator commands and sensor writes, run while the loop is suspended.   *)
(***************************************************************************)
\* start_system() without its test of emergency_stop and maintenance_mode.
StartSystem_Unconditional(v) == [v EXCEPT !.system_running = TRUE]

\* start_system()
StartSystem(v) ==
    IF ~v.emergency_stop /\ ~v.maintenance_mode
    THEN [v EXCEPT !.system_running = TRUE]
    ELSE v

StopSystem(v) == [v EXCEPT !.system_running = FALSE]

OpStartSystem ==
    /\ ncalls < MaxCommands
    /\ ncalls' = ncalls + 1
    /\ Suspended
    /\ pv' = StartSystem(pv)
    /\ UNCHANGED <<pid, last_call, dt_pos, tune, safetyVars, plcVars>>

OpStopSystem ==
    /\ ncalls < MaxCommands
    /\ ncalls' = ncalls + 1
    /\ Suspended
    /\ pv' = StopSystem(pv)
    /\ UNCHANGED <<pid, last_call, dt_pos, tune, safetyVars, plcVars>>

\* emergency_stop(): during the sampling window, or while the loop waits for
\* the data logger, the cycle is still in progress.
OpEmergencyStop ==
    /\ ncalls < MaxCommands
    /\ ncalls' = ncalls + 1
    /\ Suspended
    /\ pv' = [pv EXCEPT !.emergency_stop = TRUE]
    /\ cyc' = IF pc \in {"sampling", "log_await"}
              THEN [cyc EXCEPT !.estop = TRUE] ELSE cyc
    /\ UNCHANGED <<pid, last_call, dt_pos, tune, safetyVars, flow_controller, pressure_controller,
                   running, modbus_running, opcua_running, pc, now,
                   last_sample_time, current_time, cycles>>

OpResetEmergencyStop ==
    /\ ncalls < MaxCommands
    /\ ncalls' = ncalls + 1
    /\ Suspended
    /\ pv.emergency_stop
    /\ pv' = [pv EXCEPT !.emergency_stop = FALSE]
    /\ UNCHANGED <<pid, last_call, dt_pos, tune, safetyVars, plcVars>>

\* reset_safety_system()
OpResetSafetySystem ==
    /\ ncalls < MaxCommands
    /\ ncalls' = ncalls + 1
    /\ Suspended
    /\ trip_active
    /\ safety_violations' = <<>>
    /\ trip_active' = FALSE
    /\ UNCHANGED <<pid, last_call, dt_pos, tune, pv, limits, last_check, plcVars>>

\* The maintenance_mode flag has no method: the operator panel writes the field.
OpSetMaintenanceMode ==
    /\ ncalls < MaxCommands
    /\ ncalls' = ncalls + 1
    /\ Suspended
    /\ pv' = [pv EXCEPT !.maintenance_mode = ~@]
    /\ UNCHANGED <<pid, last_call, dt_pos, tune, safetyVars, plcVars>>

\* The sensor collaborator refreshes the measured inputs.
SensorWrite ==
    /\ ncalls < MaxCommands
    /\ ncalls' = ncalls + 1
    /\ Suspended
    /\ \E m \in SensorProfiles :
          pv' = [pv EXCEPT !.flow_rate = m[1], !.pressure_inlet = m[2],
                           !.temperature = m[3], !.density_measurement = m[4]]
    /\ UNCHANGED <<pid, last_call, dt_pos, tune, safetyVars, plcVars>>

\* shutdown(): the flag, then both servers (the data logger is not modelled).
OpShutdown ==
    /\ ncalls < MaxCommands
    /\ ncalls' = ncalls + 1
    /\ pc \in {"sampling", "log_await", "sleeping"}
    /\ running
    /\ running' = FALSE
    /\ modbus_running' = FALSE
    /\ opcua_running' = FALSE
    /\ cyc' = IF pc \in {"sampling", "log_await"}
              THEN [cyc EXCEPT !.shutdown = TRUE] ELSE cyc
    /\ UNCHANGED <<pid, last_call, dt_pos, tune, pv, safetyVars, flow_controller, pressure_controller,
                   pc, now, last_sample_time, current_time, cycles>>

NextPLC ==
    \/ StartController
    \/ LoopTop
    \/ InputScanStep
    \/ ProcessLogicStep
    \/ SamplingWake
    \/ OutputScanStep
    \/ CommunicationUpdateStep
    \/ LogDataStep
    \/ LogDataSuspend
    \/ LogDataReturn
    \/ CycleFault
    \/ MaintainScanTime
    \/ WakeUp
    \/ OpStartSystem
    \/ OpStopSystem
    \/ OpEmergencyStop
    \/ OpResetEmergencyStop
    \/ OpResetSafetySystem
    \/ OpSetMaintenanceMode
    \/ SensorWrite
    \/ OpShutdown

SpecPLC == InitPLC /\ [][NextPLC]_vars

\* SpecAlarm: the scan loop under either safety configuration, with the
\* sensor writes, start_system() and shutdown() as the only callbacks (no
\* stop, emergency stop, reset or maintenance).
InitAlarm ==
    /\ InitPLCVars
    /\ limits \in LimitConfigs
    /\ InitSafetyVars
    /\ pid = NewPID(R(1), R(0), R(0), R(0), R(100), Q(1, 10))
    /\ InitPIDVars

NextAlarm ==
    \/ StartController
    \/ LoopTop
    \/ InputScanStep
    \/ ProcessLogicStep
    \/ SamplingWake
    \/ OutputScanStep
    \/ CommunicationUpdateStep
    \/ LogDataStep
    \/ LogDataSuspend
    \/ LogDataReturn
    \/ MaintainScanTime
    \/ WakeUp
    \/ CycleFault
    \/ OpStartSystem
    \/ SensorWrite
    \/ OpShutdown

SpecAlarm == InitAlarm /\ [][NextAlarm]_vars

(***************************************************************************)
(* SpecSample: the scan loop of a started system with the process at its   *)
(* setpoints, started on a controller that has never sampled or whose      *)
(* earlier run of start_controller (ended by shutdown(), which keeps       *)
(* _last_sample_time and system_running) took its last sample some time    *)
(* ago.                                                                    *)
(***************************************************************************)
\* <<_last_sample_time, the clock when start_controller is called>>: no
\* sample yet, or the last one 10 s, 29 s, 30 s, or a day and 10 s ago.
SampleHistories == { <<-1, 0>>, <<0, 10>>, <<0, 29>>, <<0, 30>>, <<0, 86410>> }

\* The process variables of a started system at its setpoints.
SteadyPV ==
    [DefaultPV EXCEPT !.flow_rate = R(100), !.pressure_inlet = R(25),
                      !.temperature = R(60), !.system_running = TRUE]

InitSample ==
    /\ pv = SteadyPV
    /\ \E h \in SampleHistories :
          /\ last_sample_time = h[1]
          /\ now = h[2]
          /\ \E c \in { ControlLoops(SteadyPV, FlowControllerInit,
                                      PressureControllerInit) } :
                /\ flow_controller =
                      IF h[1] = -1 THEN FlowControllerInit ELSE c.flow
                /\ pressure_controller =
                      IF h[1] = -1 THEN PressureControllerInit ELSE c.pressure
    /\ running = FALSE
    /\ modbus_running = FALSE
    /\ opcua_running = FALSE
    /\ pc = "idle"
    /\ current_time = 0
    /\ cycles = 0
    /\ cyc = NewCycle
    /\ limits = DefaultLimits
    /\ InitSafetyVars
    /\ pid = NewPID(R(1), R(0), R(0), R(0), R(100), Q(1, 10))
    /\ InitPIDVars

NextSample ==
    \/ StartController
    \/ LoopTop
    \/ InputScanStep
    \/ ProcessLogicStep
    \/ SamplingWake
    \/ OutputScanStep
    \/ CommunicationUpdateStep
    \/ LogDataStep
    \/ LogDataSuspend
    \/ LogDataReturn
    \/ MaintainScanTime
    \/ WakeUp
    \/ SensorWrite
    \/ OpShutdown

SpecSample == InitSample /\ [][NextSample]_vars

(***************************************************************************)
(* SpecPID: one PIDController driven through its public operations.        *)
(***************************************************************************)
MaxCalls == 4

\* Constructor arguments: the flow loop of the default configuration
\* (main_controller.py, _get_default_config) and a proportional-only
\* controller whose output range starts above zero.
PIDConfigs ==
    { NewPID(Q(3, 2), Q(3, 10), Q(1, 10), R(0), R(100), Q(1, 10)),
      NewPID(R(1), R(0), R(0), R(10), R(100), Q(1, 10)) }

ErrSet == { R(-1000), R(0), R(50), R(1000) }

DtSet == { NoneR, Q(1, 10), R(0), Q(-1, 10) }

ElapsedSet == { Q(1, 5) }

ManualSet == { R(50), R(150) }

ParamSet == { <<R(2), NoneR, NoneR>>, <<R(1), R(0), R(0)>> }

LimitSet == { <<R(-50), R(50)>>, <<R(60), R(40)>> }

\* Another caller's operation falls inside an auto_tune call while no more
\* than MaxInside calls have been made on the controller, that call and the
\* operations inside it included, and in one of the first MaxInsideSleep
\* sleeps of the call.
MaxInside == 1

MaxInsideSleep == 14

\* The operation is called while no auto_tune is in progress, or by another
\* caller while auto_tune's caller is parked in a sleep.
OtherCaller ==
    /\ tune.phase = "asleep" =>
          /\ ncalls <= MaxInside
          /\ (tune.levels - 1) * TestPasses(pid) + tune.pass <= MaxInsideSleep
    /\ tune' = IF tune.phase = "asleep"
               THEN [tune EXCEPT !.inside = @ + 1] ELSE tune

InitPID ==
    /\ pid \in PIDConfigs
    /\ InitPIDVars
    /\ InitPLCVars
    /\ limits = DefaultLimits
    /\ InitSafetyVars

PIDUpdate ==
    /\ ncalls < MaxCalls
    /\ OtherCaller
    /\ \E error \in ErrSet, dt \in DtSet, elapsed \in ElapsedSet :
          LET r == Update(pid, error, dt, elapsed)
          IN  /\ pid' = r.ctl
              /\ last_call' = [op |-> "update", err |-> error, out |-> r.out,
                               first |-> ~pid.initialized, auto |-> pid.auto_mode,
                               after_reset |-> (last_call.op = "reset"),
                               transfer |-> IF last_call.op = "set_auto_mode"
                                            THEN last_call.transfer ELSE NoneR]
              /\ dt_pos' = (dt_pos /\ RLt(Zero, EffectiveDt(pid, dt, elapsed)))
    /\ ncalls' = ncalls + 1
    /\ UNCHANGED <<pv, safetyVars, plcVars>>

PIDSetAutoMode ==
    /\ ncalls < MaxCalls
    /\ OtherCaller
    /\ \E auto \in BOOLEAN, m \in ManualSet :
          /\ pid' = SetAutoMode(pid, auto, m)
          /\ last_call' = [NoCall EXCEPT !.op = "set_auto_mode",
                                         !.transfer = IF auto /\ ~pid.auto_mode
                                                      THEN m ELSE NoneR]
    /\ ncalls' = ncalls + 1
    /\ UNCHANGED <<dt_pos, pv, safetyVars, plcVars>>

PIDSetParameters ==
    /\ ncalls < MaxCalls
    /\ OtherCaller
    /\ \E g \in ParamSet : pid' = SetParameters(pid, g[1], g[2], g[3])
    /\ last_call' = [NoCall EXCEPT !.op = "set_parameters"]
    /\ ncalls' = ncalls + 1
    /\ UNCHANGED <<dt_pos, pv, safetyVars, plcVars>>

PIDSetOutputLimits ==
    /\ ncalls < MaxCalls
    /\ OtherCaller
    /\ \E l \in LimitSet : pid' = SetOutputLimits(pid, l[1], l[2])
    /\ last_call' = [NoCall EXCEPT !.op = "set_output_limits"]
    /\ ncalls' = ncalls + 1
    /\ UNCHANGED <<dt_pos, pv, safetyVars, plcVars>>

PIDReset ==
    /\ ncalls < MaxCalls
    /\ OtherCaller
    /\ pid' = Reset(pid)
    /\ last_call' = [NoCall EXCEPT !.op = "reset"]
    /\ ncalls' = ncalls + 1
    /\ UNCHANGED <<dt_pos, pv, safetyVars, plcVars>>

NextPID ==
    \/ PIDUpdate
    \/ PIDSetAutoMode
    \/ PIDSetParameters
    \/ PIDSetOutputLimits
    \/ PIDReset

SpecPID == InitPID /\ [][NextPID]_vars

(***************************************************************************)
(* SpecTune: one PIDController, auto_tune among its operations.  A call of *)
(* auto_tune runs from one time.sleep of its oscillation tests to the      *)
(* next; while its caller is parked there, set_auto_mode, set_parameters   *)
(* and reset of other callers run on the same controller.  No second       *)
(* auto_tune is started while one is in progress.                          *)
(***************************************************************************)
MaxSteady == 2

\* auto_tune is among the first MaxTunes calls made on the controller.
MaxTunes == 2

\* Constructor arguments: the flow loop of the default configuration with a
\* sample time of 3 s (ten passes in a 30 s oscillation test), of 30 s (one
\* pass, too few measurements to decide) and of -1 s (the constructor does
\* not validate it).
TuneConfigs ==
    { NewPID(Q(3, 2), Q(3, 10), Q(1, 10), R(0), R(100), R(3)),
      NewPID(Q(3, 2), Q(3, 10), Q(1, 10), R(0), R(100), R(30)),
      NewPID(Q(3, 2), Q(3, 10), Q(1, 10), R(0), R(100), R(-1)) }

\* auto_tune(setpoint, f) as <<setpoint, n, final>>: the process variable
\* stays at the setpoint for n oscillation tests and then steps away from it
\* or the function raises, or it stays there for all tests.  A setpoint of 0
\* gives readings whose mean is 0.
TuneCalls ==
    ({ R(50) } \X (0 .. MaxSteady) \X { "step", "raise" })
    \cup { <<R(0), 0, "step">>, <<R(0), MaxLevels, "steady">> }

InitTune ==
    /\ pid \in TuneConfigs
    /\ InitPIDVars
    /\ InitPLCVars
    /\ limits = DefaultLimits
    /\ InitSafetyVars

\* auto_tune goes on from the search state s: to its next sleep, or to its
\* return.  inside and before are kept for the call.
TuneGoesOn(s, inside, before) ==
    IF s.outcome = "asleep"
    THEN /\ pid' = s.ctl
         /\ tune' = [NoTune EXCEPT !.called = TRUE, !.levels = s.levels,
                                   !.kp = s.kp, !.ki = s.ki, !.kd = s.kd,
                                   !.phase = "asleep", !.setpoint = s.setpoint,
                                   !.run = s.run, !.gain = s.gain,
                                   !.pass = s.pass, !.inside = inside,
                                   !.before = before]
         /\ last_call' = [NoCall EXCEPT !.op = "auto_tune_sleep"]
    ELSE \E r \in { AutoTune(s) } :
            /\ pid' = r.ctl
            /\ tune' = [NoTune EXCEPT !.called = TRUE, !.result = r.result,
                                      !.ok = (r.result = "True"),
                                      !.caught = r.caught, !.levels = r.levels,
                                      !.kp = s.kp, !.ki = s.ki, !.kd = s.kd,
                                      !.inside = inside, !.before = before]
            /\ last_call' = [NoCall EXCEPT !.op = "auto_tune"]

\* auto_tune(setpoint, process_variable_func) is called, no other call of it
\* being in progress, and runs to its first sleep or to its return.
PIDAutoTune ==
    /\ ncalls < MaxTunes
    /\ tune.phase = "idle"
    /\ \E c \in TuneCalls :
          TuneGoesOn(SearchLevel(SearchStart(pid, c[1], <<c[2], c[3]>>)), 0, pid)
    /\ ncalls' = ncalls + 1
    /\ UNCHANGED <<dt_pos, pv, safetyVars, plcVars>>

\* time.sleep(sample_time) returns (line 389) and auto_tune goes on with the
\* controller as it is now.
PIDAutoTuneWake ==
    /\ tune.phase = "asleep"
    /\ tune.levels <= MaxSearch
    /\ TuneGoesOn(TestForOscillation(
                      [ctl |-> pid, setpoint |-> tune.setpoint, run |-> tune.run,
                       kp |-> tune.kp, ki |-> tune.ki, kd |-> tune.kd,
                       gain |-> tune.gain, levels |-> tune.levels,
                       pass |-> tune.pass, outcome |-> "asleep"]),
                  tune.inside, tune.before)
    /\ UNCHANGED <<ncalls, dt_pos, pv, safetyVars, plcVars>>

NextTune ==
    \/ PIDAutoTune
    \/ PIDAutoTuneWake
    \/ PIDSetAutoMode
    \/ PIDSetParameters
    \/ PIDReset

SpecTune == InitTune /\ [][NextTune]_vars

(***************************************************************************)
(* SpecSafety: check_safety called on arbitrary process values, and        *)
(* reset_safety_system.                                                    *)
(***************************************************************************)
PressureSet == { Q(49, 10), R(5), R(25), R(35), Q(351, 10) }

TemperatureSet == { R(60), R(80), Q(801, 10) }

FlowSet == { R(100), R(200), Q(2001, 10) }

OilSet == { R(0), R(1000), R(1200) }

InitSafety ==
    /\ limits \in LimitConfigs
    /\ InitSafetyVars
    /\ InitPLCVars
    /\ pid = NewPID(R(1), R(0), R(0), R(0), R(100), Q(1, 10))
    /\ InitPIDVars

SafetyCheck ==
    /\ \E p \in PressureSet, t \in TemperatureSet, f \in FlowSet, o \in OilSet :
          \E v \in {[pv EXCEPT !.pressure_inlet = p, !.temperature = t,
                               !.flow_rate = f, !.oil_in_water_ppm = o]} :
             \E chk \in {CheckSafety(limits, v, safety_violations, trip_active)} :
                /\ pv' = v
                /\ safety_violations' = chk.safety_violations
                /\ trip_active' = chk.trip_active
                /\ last_check' = [op |-> "check", ok |-> chk.ok, before |-> trip_active]
    /\ UNCHANGED <<pidVars, limits, plcVars>>

SafetyReset ==
    /\ safety_violations' = <<>>
    /\ trip_active' = FALSE
    /\ last_check' = [op |-> "reset", ok |-> TRUE, before |-> trip_active]
    /\ UNCHANGED <<pidVars, pv, limits, plcVars>>

NextSafety ==
    \/ SafetyCheck
    \/ SafetyReset

SpecSafety == InitSafety /\ [][NextSafety]_vars

(***************************************************************************)
(* SpecCalc: _calculate_multiphase_properties on a range of densities.     *)
(***************************************************************************)
MaxDensityStep == 130

\* -100, -90, ..., 1200 kg/m3, and the density that gives 1200 ppm.
DensitySet == { R(10 * k - 100) : k \in 0..MaxDensityStep } \cup { Q(99982, 100) }

InitCalc ==
    /\ InitPLCVars
    /\ limits = DefaultLimits
    /\ InitSafetyVars
    /\ pid = NewPID(R(1), R(0), R(0), R(0), R(100), Q(1, 10))
    /\ InitPIDVars

CalcStep ==
    /\ \E d \in DensitySet :
          pv' = CalculateMultiphaseProperties([pv EXCEPT !.density_measurement = d])
    /\ UNCHANGED <<pidVars, safetyVars, plcVars>>

NextCalc == CalcStep

SpecCalc == InitCalc /\ [][NextCalc]_vars

(***************************************************************************)
(* Properties.                                                             *)
(***************************************************************************)
InRange(x, lo, hi) == RLe(lo, x) /\ RLe(x, hi)

\* C1 as stated: every value update returns, in either mode and on the first
\* call too, lies in [output_min, output_max].
C1_Original ==
    last_call.op = "update" => InRange(last_call.out, pid.output_min, pid.output_max)

\* C1 amended: with output_min <= output_max, an update made in automatic mode
\* on an initialized controller returns a value in [output_min, output_max].
C1_AutoOutputInRange ==
    (/\ last_call.op = "update"
     /\ ~last_call.first
     /\ last_call.auto
     /\ RLe(pid.output_min, pid.output_max))
        => InRange(last_call.out, pid.output_min, pid.output_max)

\* An automatic update with error 1000 whose result was limited to output_max.
C1_Witness ==
    /\ last_call.op = "update"
    /\ ~last_call.first
    /\ last_call.auto
    /\ RLt(pid.output_min, pid.output_max)
    /\ pid.last_error = R(1000)
    /\ last_call.out = pid.output_max

\* C2: when update returns after updates with dt > 0 only, the magnitude of
\* the integral accumulator is at most integral_limit.
C2_IntegralBounded ==
    (last_call.op = "update" /\ dt_pos)
        => RLe(RAbs(pid.integral), pid.integral_limit)

\* The emergency-shutdown state of the outputs.
SafeState(v) ==
    /\ v.pump_speed = R(0)
    /\ v.inlet_valve_position = R(0)
    /\ v.outlet_valve_position = R(100)
    /\ ~v.sample_valve_state
    /\ ~v.system_running

\* C3: if emergency_stop was set before a cycle started or became set while
\* it was in progress, the cycle ends in the emergency-shutdown state.
C3_EStopSafeAtCycleEnd ==
    (pc = "timing" /\ cyc.estop) => SafeState(pv)

\* The cycle met check_safety running, out of maintenance, without emergency
\* stop, with pressure, temperature and flow inside their limits, and no step
\* of it raised.
NominalAtCheck ==
    /\ cyc.safety # "none"
    /\ ~cyc.faulted
    /\ cyc.at_check.system_running
    /\ ~cyc.at_check.maintenance_mode
    /\ ~cyc.at_check.emergency_stop
    /\ RLe(limits.min_pressure, cyc.at_check.pressure_inlet)
    /\ RLe(cyc.at_check.pressure_inlet, limits.max_pressure)
    /\ RLe(cyc.at_check.temperature, limits.max_temperature)
    /\ RLe(cyc.at_check.flow_rate, limits.max_flow_rate)

\* C4 as stated: a cycle with oil_in_water_ppm above 1000 and all else nominal
\* ends with alarm_active true, whether or not the safety evaluator tripped.
C4_Original ==
    (pc = "timing" /\ NominalAtCheck /\ RLt(R(1000), pv.oil_in_water_ppm))
        => pv.alarm_active

\* C4 amended: such a cycle ends with alarm_active true when the safety
\* evaluator did not trip in it; when it tripped, alarm_active still has the
\* value it had when the cycle started.
C4_AlarmWhenNotTripped ==
    (pc = "timing" /\ NominalAtCheck /\ RLt(R(1000), pv.oil_in_water_ppm))
        => /\ cyc.safety = "pass" => pv.alarm_active
           /\ cyc.safety = "trip" => pv.alarm_active = cyc.at_check.alarm_active

\* A nominal cycle at 1200 ppm that passed the safety check and raised the alarm.
C4_Witness ==
    /\ pc = "timing"
    /\ NominalAtCheck
    /\ cyc.safety = "pass"
    /\ pv.oil_in_water_ppm = R(1200)
    /\ pv.alarm_active

\* Whether some limit is violated by the values v.
AnyLimitViolated(lim, v) ==
    \/ RLt(lim.max_pressure, v.pressure_inlet)
    \/ RLt(v.pressure_inlet, lim.min_pressure)
    \/ RLt(lim.max_temperature, v.temperature)
    \/ RLt(lim.max_flow_rate, v.flow_rate)
    \/ RLt(lim.max_oil_in_water, v.oil_in_water_ppm)

\* C5 as stated: a trip that was active before a check_safety call is still
\* active, with a non-empty violation list, after it.
C5_Original ==
    (last_check.op = "check" /\ last_check.before)
        => (trip_active /\ safety_violations # <<>>)

\* C5 amended: a trip that was active before a check_safety call stays active
\* (violation list non-empty) exactly when that call finds a limit violated;
\* a call that finds none clears the trip and the list by itself.
C5_TripHeldWhileViolated ==
    (last_check.op = "check" /\ last_check.before)
        => /\ trip_active = AnyLimitViolated(limits, pv)
           /\ (safety_violations # <<>>) = AnyLimitViolated(limits, pv)

\* A trip cleared by a passing check, without reset_safety_system.
C5_Witness ==
    /\ last_check.op = "check"
    /\ last_check.before
    /\ ~trip_active
    /\ safety_violations = <<>>

RuleOrder ==
    <<"High inlet pressure", "Low inlet pressure", "High temperature",
      "High flow rate", "High oil in water">>

RuleViolated(i, lim, v) ==
    CASE i = 1 -> RLt(lim.max_pressure, v.pressure_inlet)
      [] i = 2 -> RLt(v.pressure_inlet, lim.min_pressure)
      [] i = 3 -> RLt(lim.max_temperature, v.temperature)
      [] i = 4 -> RLt(lim.max_flow_rate, v.flow_rate)
      [] i = 5 -> RLt(lim.max_oil_in_water, v.oil_in_water_ppm)

\* C6: after check_safety, the result, trip_active and the violation list are
\* functions of the values passed to that call alone: the result is false and
\* trip_active true exactly when a rule is violated, and the list holds one
\* entry per violated rule, in the fixed order of the rules.
C6_CheckIsFunctionOfInputs ==
    last_check.op = "check" =>
        LET violated == { i \in 1..5 : RuleViolated(i, limits, pv) }
        IN  /\ last_check.ok = (violated = {})
            /\ trip_active = (violated # {})
            /\ Len(safety_violations) = Cardinality(violated)
            /\ \A k \in 1..Len(safety_violations) :
                  \E i \in violated :
                     /\ safety_violations[k].rule = RuleOrder[i]
                     /\ Cardinality({ j \in violated : j < i }) = k - 1

\* pressure_inlet = max_pressure + 0.1, all else nominal: false, tripped, one entry.
C6_Witness ==
    /\ last_check.op = "check"
    /\ pv.pressure_inlet = RAdd(limits.max_pressure, Q(1, 10))
    /\ pv.temperature = R(60) /\ pv.flow_rate = R(100) /\ pv.oil_in_water_ppm = R(0)
    /\ ~last_check.ok
    /\ trip_active
    /\ Len(safety_violations) = 1
    /\ safety_violations[1] = [rule |-> "High inlet pressure", tenths |-> 351]

\* C7: a cycle in which a step raised ends, after the handler, in the
\* emergency-shutdown state, and the loop leaves its while statement only
\* when the running flag is false.
C7_FaultCaughtLoopContinues ==
    /\ (pc = "timing" /\ cyc.faulted) => SafeState(pv)
    /\ pc = "exited" => ~running

\* A faulted cycle at its end, the running flag still set.
C7_Witness ==
    /\ pc = "timing"
    /\ cyc.faulted
    /\ running
    /\ cyc.at_check.system_running

\* C8: at the end of every scan cycle the three outputs lie in [0, 100].
C8_OutputsInRange ==
    pc = "timing" =>
        /\ InRange(pv.pump_speed, R(0), R(100))
        /\ InRange(pv.inlet_valve_position, R(0), R(100))
        /\ InRange(pv.outlet_valve_position, R(0), R(100))

\* A cycle whose control loops ran, at its end, the pump driven.
C8_Witness ==
    /\ pc = "timing"
    /\ cyc.control
    /\ cyc.clamped
    /\ RLt(R(0), pv.pump_speed)

\* C9: after the derived-property calculation, gas_volume_fraction and
\* water_cut lie in [0, 100] and oil_in_water_ppm is not negative.
C9_DerivedInRange ==
    /\ InRange(pv.gas_volume_fraction, R(0), R(100))
    /\ InRange(pv.water_cut, R(0), R(100))
    /\ RLe(R(0), pv.oil_in_water_ppm)

\* C10: no scan cycle ends without _output_scan having run in it.
C10_ClampEveryCycle ==
    pc = "timing" => cyc.clamped

\* C11: an update made in manual mode, the first one after construction or
\* reset included, returns exactly the stored manual_output, whatever the
\* error, the dt and the output limits.
C11_ManualReturnsManualOutput ==
    (last_call.op = "update" /\ ~last_call.auto)
        => last_call.out = pid.manual_output

\* A manual update on an initialized controller that returned 150 although
\* output_max is 100.
C11_Witness ==
    /\ last_call.op = "update"
    /\ ~last_call.auto
    /\ ~last_call.first
    /\ pid.output_max = R(100)
    /\ last_call.out = R(150)

BumplessTolerance == Q(1, 100)

\* C12: on an initialized controller with ki # 0 that stood in manual mode
\* with manual_output M inside the output limits and was switched to
\* automatic by set_auto_mode(True, M), the next update, called with error 0
\* (and leaving the filtered derivative at 0, so that no derivative term is
\* involved), returns M within the tolerance.
C12_BumplessTransfer ==
    (/\ last_call.op = "update"
     /\ last_call.auto
     /\ ~last_call.first
     /\ last_call.err = Zero
     /\ pid.last_derivative = Zero
     /\ ~IsNone(last_call.transfer)
     /\ last_call.transfer = pid.manual_output
     /\ pid.ki # Zero
     /\ InRange(pid.manual_output, pid.output_min, pid.output_max))
        => RLe(RAbs(RSub(last_call.out, last_call.transfer)), BumplessTolerance)

\* C16: the first update after reset() stores the error as the baseline,
\* applies no gain (integral, filtered derivative and history stay cleared)
\* and returns 0 in automatic mode and manual_output in manual mode, whatever
\* the calls before the reset were.
C16_ResetThenFirstUpdate ==
    (last_call.op = "update" /\ last_call.after_reset)
        => /\ last_call.first
           /\ last_call.out = (IF last_call.auto THEN Zero ELSE pid.manual_output)
           /\ pid.initialized
           /\ pid.last_error = last_call.err
           /\ pid.integral = Zero
           /\ pid.last_derivative = Zero
           /\ pid.error_history = <<>>
           /\ pid.output_history = <<>>

\* update(1000) right after a reset that followed earlier calls: it returned 0.
C16_Witness ==
    /\ last_call.op = "update"
    /\ last_call.after_reset
    /\ last_call.auto
    /\ ncalls >= 4
    /\ last_call.err = R(1000)
    /\ last_call.out = Zero
    /\ pid.last_error = R(1000)

\* C13: a started loop that has not returned is suspended only at the cycle
\* boundary, that is in the end-of-cycle sleep; no cycle is suspended between
\* its input scan and its last step.
C13_SuspendsOnlyAtBoundary ==
    (Suspended /\ pc \notin {"idle", "exited"}) => pc = "sleeping"

\* C14: a cycle that was in progress when shutdown() cleared the running flag
\* ends with its output clamping done; the flag is false inside a cycle only
\* when shutdown() ran during that cycle (no cycle starts after it), and the
\* loop has exited only with the flag false.
C14_ShutdownFinishesCycle ==
    /\ (pc = "timing" /\ cyc.shutdown) => cyc.clamped
    /\ (pc \notin {"idle", "top", "sleeping", "exited"} /\ ~running) => cyc.shutdown
    /\ pc = "exited" => ~running

\* C15: the scan loop is never waiting for the data logger to complete.
C15_NeverWaitsForCollaborator ==
    pc # "log_await"

\* The loop is inside a scan cycle.
InCycle ==
    pc \in {"input_scan", "process_logic", "sampling", "output_scan",
            "communication", "log", "log_await", "timing"}

\* C19: in every scan cycle the safety check comes after the input scan, the
\* PID updates only after a passed safety check, the output clamping after
\* the process logic, the push to the communication stubs after the clamping
\* and the log write after the push.
C19_StepOrder ==
    InCycle =>
        /\ cyc.safety # "none" => pc \notin {"input_scan", "process_logic"}
        /\ cyc.control => cyc.safety = "pass"
        /\ (flow_controller # cyc.flow0 \/ pressure_controller # cyc.pressure0)
              => (cyc.control /\ cyc.safety = "pass")
        /\ cyc.clamped => cyc.safety # "none"
        /\ cyc.pushed => cyc.clamped
        /\ cyc.logged => cyc.pushed

\* A complete cycle at its end: both controllers updated, outputs clamped,
\* snapshot pushed and logged.
C19_Witness ==
    /\ pc = "timing"
    /\ cyc.safety = "pass"
    /\ cyc.control
    /\ flow_controller # cyc.flow0
    /\ pressure_controller # cyc.pressure0
    /\ cyc.clamped
    /\ cyc.pushed
    /\ cyc.logged

\* The condition under which _process_logic reaches its control step.
ControlCondition ==
    /\ cyc.safety = "pass"
    /\ ~cyc.at_check.emergency_stop
    /\ cyc.at_check.system_running
    /\ ~cyc.at_check.maintenance_mode

\* C20: at the end of a cycle, the control step has been entered in it
\* exactly when the safety check passed with emergency_stop false,
\* system_running true and maintenance_mode false; when it ran and no step of
\* the cycle raised, both controllers were updated, and when it was not
\* entered, both controllers are as they were when the cycle started, no
\* sampling window was opened and alarm_active has the value it had.
C20_ControlStepFrame ==
    pc = "timing" =>
        /\ cyc.control <=> ControlCondition
        /\ (cyc.control /\ ~cyc.faulted) =>
              /\ flow_controller # cyc.flow0
              /\ pressure_controller # cyc.pressure0
        /\ ~cyc.control =>
              /\ flow_controller = cyc.flow0
              /\ pressure_controller = cyc.pressure0
              /\ ~cyc.sampled
              /\ ~cyc.quality
              /\ pv.alarm_active = cyc.at_check.alarm_active

\* A tripped cycle at its end, the system running at the check, after an
\* earlier cycle whose control step ran: the controllers are untouched.
C20_Witness ==
    /\ pc = "timing"
    /\ cyc.safety = "trip"
    /\ cyc.at_check.system_running
    /\ ~cyc.control
    /\ flow_controller.initialized
    /\ flow_controller = cyc.flow0
    /\ pressure_controller = cyc.pressure0

\* C18: after the derived-property calculation on density d,
\* gas_volume_fraction = max(0, (850 - d)/850*100), liquid_density =
\* d*(1 - gas_volume_fraction/100), water_cut = (liquid_density - 850)/150*100
\* if liquid_density > 850 else 0, and oil_in_water_ppm = (100 - water_cut)*10000
\* if water_cut > 50 else 0; d = 850 gives 0, 0 and 0.
C18_DerivedFormulas ==
    LET d == pv.density_measurement
        gvf == RMax(Zero, RDiv(RMul(RSub(R(850), d), R(100)), R(850)))
        liquid == RSub(d, RDiv(RMul(d, gvf), R(100)))
        wc == IF RLt(R(850), liquid)
              THEN RDiv(RMul(RSub(liquid, R(850)), R(100)), R(150)) ELSE Zero
        ppm == IF RLt(R(50), wc) THEN RMul(RSub(R(100), wc), R(10000)) ELSE Zero
    IN  /\ pv.gas_volume_fraction = gvf
        /\ pv.water_cut = wc
        /\ pv.oil_in_water_ppm = ppm
        /\ d = R(850) => (/\ pv.gas_volume_fraction = Zero
                          /\ pv.water_cut = Zero
                          /\ pv.oil_in_water_ppm = Zero)

\* The calculation has run on d = 940: no gas, water cut 60 %, 400000 ppm.
C18_Witness ==
    /\ pv.density_measurement = R(940)
    /\ pv.gas_volume_fraction = Zero
    /\ pv.water_cut = R(60)
    /\ pv.oil_in_water_ppm = R(400000)

\* C17: auto_tune is left by a return of True or of False and never by an
\* exception (an exception inside it ends in the value False), and when it
\* returns False the controller's kp, ki and kd are the ones it had before
\* the call.
C17_AutoTuneRestoresOnFailure ==
    last_call.op = "auto_tune" =>
        /\ tune.called
        /\ tune.result \in { "True", "False" }
        /\ tune.caught => tune.result = "False"
        /\ tune.result = "False" => /\ pid.kp = tune.kp
                                    /\ pid.ki = tune.ki
                                    /\ pid.kd = tune.kd

\* auto_tune has returned False after the process-variable function raised in
\* the third oscillation test, the search then running with kp = 1.44 and
\* another caller's operation having fallen inside the call, and the gains
\* are the constructor's.
C17_Witness ==
    /\ last_call.op = "auto_tune"
    /\ tune.result = "False"
    /\ tune.caught
    /\ tune.levels = 3
    /\ tune.inside = 1
    /\ pid.kp = Q(3, 2)
    /\ pid.ki = Q(3, 10)
    /\ pid.kd = Q(1, 10)
    /\ Len(pid.error_history) > 0

\* C21: at the end of every scan cycle in which no step raised, running or
\* not, gas_volume_fraction,
\* water_cut and oil_in_water_ppm are the derived-property formulas applied
\* to the density_measurement that the cycle's safety check saw.
C21_DerivedFreshEveryCycle ==
    (pc = "timing" /\ cyc.safety # "none" /\ ~cyc.faulted) =>
        \E d \in { CalculateMultiphaseProperties(cyc.at_check) } :
            /\ pv.gas_volume_fraction = d.gas_volume_fraction
            /\ pv.water_cut = d.water_cut
            /\ pv.oil_in_water_ppm = d.oil_in_water_ppm

\* The tunable parameters of two controllers are the same.
SameTunables(p, q) ==
    /\ p.kp = q.kp /\ p.ki = q.ki /\ p.kd = q.kd
    /\ p.output_min = q.output_min /\ p.output_max = q.output_max
    /\ p.integral_limit = q.integral_limit
    /\ p.derivative_filter_time = q.derivative_filter_time
    /\ p.deadband = q.deadband
    /\ p.sample_time = q.sample_time

\* last_error, the integral, the filtered derivative, last_time, the
\* initialized flag and the diagnostic history are as after construction.
RunningStateCleared(p) ==
    /\ p.last_error = Zero /\ p.integral = Zero /\ p.last_derivative = Zero
    /\ ~p.last_time_set /\ ~p.initialized
    /\ p.error_history = <<>> /\ p.output_history = <<>>

\* C22 as stated: reset() clears all of the running state, the automatic/manual
\* flag (back to automatic) and manual_output (back to 0) included, and
\* changes no tunable parameter.
C22_Original ==
    [][last_call'.op = "reset" =>
          /\ RunningStateCleared(pid')
          /\ pid'.auto_mode /\ pid'.manual_output = Zero
          /\ SameTunables(pid', pid)]_vars

\* C22: reset() clears last_error, the integral, the filtered derivative,
\* last_time, the initialized flag and the diagnostic history, and leaves
\* the automatic/manual flag, manual_output and every tunable parameter as
\* they were.
C22_ResetFrame ==
    [][last_call'.op = "reset" =>
          /\ RunningStateCleared(pid')
          /\ pid'.auto_mode = pid.auto_mode
          /\ pid'.manual_output = pid.manual_output
          /\ SameTunables(pid', pid)]_vars

\* reset() has run on a controller in manual mode with manual output 50 and
\* kp changed to 2: mode, manual output and gain are still those.
C22_Witness ==
    /\ last_call.op = "reset"
    /\ ~pid.auto_mode
    /\ pid.manual_output = R(50)
    /\ pid.kp = R(2)
    /\ RunningStateCleared(pid)

\* C23: when auto_tune returns False, no other caller's operation having
\* fallen inside the call, the controller's running state (the integral,
\* last_error, the filtered derivative, the initialized flag, the error and
\* output history) is what it was before the call.
C23_FailedTuneKeepsRunningState ==
    (last_call.op = "auto_tune" /\ ~tune.ok /\ tune.inside = 0) =>
        /\ pid.integral = tune.before.integral
        /\ pid.last_error = tune.before.last_error
        /\ pid.last_derivative = tune.before.last_derivative
        /\ pid.initialized = tune.before.initialized
        /\ pid.error_history = tune.before.error_history
        /\ pid.output_history = tune.before.output_history

\* 1.2^(n - 1), the gain of the n-th level of the search.
RECURSIVE GainAtLevel(_)
GainAtLevel(n) == IF n <= 1 THEN R(1) ELSE GMul(Q(6, 5), GainAtLevel(n - 1))

\* The least k >= 1 with k * sample_time >= 30: the passes of one
\* oscillation test, which sleeps sample_time in every pass.
PassesPerTest(p) ==
    CHOOSE k \in 1 .. 400 :
        /\ RLe(R(30), RMul(R(k), p.sample_time))
        /\ k > 1 => RLt(RMul(R(k - 1), p.sample_time), R(30))

\* C24: auto_tune never starts a 27th oscillation test, and a test in
\* progress has made no more passes than fit into its 30 s.  When the call
\* has returned: the search left at the first detected oscillation, its gain
\* 1.2^(levels - 1) giving kp = 0.6 * ku, and without a detection or an
\* exception only when the gain had reached 100 after exactly 26 levels;
\* with a positive sample_time every oscillation test made the passes that
\* fit into its 30 s and no more (seen, when no other caller's operation
\* fell inside the call, in the history of a controller in automatic mode:
\* every update adds an entry, but the first one of a fresh controller), and
\* with a negative one the first test ended the search by the exception of
\* its sleep.
C24_TuneTerminates ==
    /\ tune.levels >= 0 /\ tune.levels <= 26
    /\ tune.phase = "asleep" =>
          (tune.pass >= 1 /\ tune.pass <= PassesPerTest(pid))
    /\ last_call.op = "auto_tune" =>
          /\ tune.phase = "idle"
          /\ (~tune.ok /\ ~tune.caught) => tune.levels = 26
          /\ tune.ok => pid.kp = GMul(Q(3, 5), GainAtLevel(tune.levels))
          /\ RLt(pid.sample_time, Zero) => (tune.caught /\ tune.levels = 1)
          /\ (/\ RLt(Zero, pid.sample_time)
              /\ tune.inside = 0
              /\ tune.before.auto_mode /\ ~tune.before.initialized
              /\ tune.before.error_history = <<>>) =>
                \E n \in { PassesPerTest(pid) *
                            (IF tune.caught THEN tune.levels - 1
                             ELSE tune.levels) } :
                    Len(pid.error_history) = IF n = 0 THEN 0 ELSE n - 1
          /\ (/\ RLt(Zero, pid.sample_time)
              /\ tune.inside = 0
              /\ tune.before.auto_mode /\ tune.before.initialized) =>
                \E n \in { PassesPerTest(pid) *
                            (IF tune.caught THEN tune.levels - 1
                             ELSE tune.levels) } :
                    Len(pid.error_history) = Len(tune.before.error_history) + n

\* auto_tune has returned False without an exception after 26 gain levels of
\* ten passes each on a fresh controller.
C24_Witness ==
    /\ last_call.op = "auto_tune"
    /\ ~tune.ok /\ ~tune.caught
    /\ tune.levels = 26
    /\ Len(pid.error_history) = 259
    /\ ncalls = 1

\* The process is within tolerance of its setpoints.
WithinTolerance(v) ==
    /\ RLt(RAbs(RSub(v.flow_rate, v.flow_setpoint)), R(5))
    /\ RLt(RAbs(RSub(v.pressure_inlet, v.pressure_setpoint)), R(2))

\* No sample was taken before, or the previous one started 30 s ago or more.
SampleDue == last_sample_time = -1 \/ now - last_sample_time >= 30

\* C25: a control step opens the sampling window only when the process is
\* within tolerance and a sample is due (so two samples never start less
\* than 30 s apart), and it never withholds the sample when the process is
\* within tolerance and a sample is due, however long ago the previous one
\* was.
C25_SamplingEvery30s ==
    /\ pc = "sampling" => (WithinTolerance(cyc.at_check) /\ SampleDue)
    /\ (pc = "output_scan" /\ cyc.control /\ ~cyc.sampled) =>
            ~(WithinTolerance(cyc.at_check) /\ SampleDue)

\* C26: system_running goes from false to true only in a start_system call
\* made with emergency_stop and maintenance_mode both clear (the step sets
\* that one field and nothing else, so it is no step of the scan loop, no
\* reset_safety_system and no reset_emergency_stop), and start_system changes
\* nothing while emergency_stop or maintenance_mode is set.
C26_StartOnlyByStartSystem ==
    /\ [][(~pv.system_running /\ pv'.system_running) =>
              /\ ~pv.emergency_stop
              /\ ~pv.maintenance_mode
              /\ pv' = [pv EXCEPT !.system_running = TRUE]
              /\ UNCHANGED <<safetyVars, plcVars>>]_vars
    /\ []((pv.emergency_stop \/ pv.maintenance_mode) => StartSystem(pv) = pv)

\* The system runs again after an emergency shutdown opened the outlet valve
\* and the trip has cleared: start_system restarted it.
C26_Witness ==
    /\ pv.system_running
    /\ pv.outlet_valve_position = R(100)
    /\ ~trip_active
    /\ ~pv.emergency_stop

\* The scan loop stands between the end of the process-logic step and the
\* end of the cycle.
AfterProcessLogic == pc \in {"output_scan", "communication", "log", "timing"}

\* C27: when system_running is true after a cycle's process-logic step, the
\* cycle's safety check passed and emergency_stop was clear at the check;
\* and a cycle whose check saw an inlet pressure below min_pressure (as the
\* first cycle from the default state does: 0, moved by at most 0.5, against
\* 5) ends with system_running false, whether or not start_system had
\* started the system.
C27_RunningImpliesCheckPassed ==
    AfterProcessLogic =>
        /\ pv.system_running =>
              (cyc.safety = "pass" /\ ~cyc.at_check.emergency_stop)
        /\ (cyc.safety # "none" /\
             RLt(cyc.at_check.pressure_inlet, limits.min_pressure)) =>
              (cyc.safety = "trip" /\ ~pv.system_running)

\* C28: outlet_valve_position is 0 or 100 in every state, and once it is 100
\* it is 100 in every later state, also after the system has been started
\* again and the control loops run.
C28_OutletValveLatches ==
    /\ [](pv.outlet_valve_position \in {R(0), R(100)})
    /\ [][pv.outlet_valve_position = R(100) =>
              pv'.outlet_valve_position = R(100)]_vars

\* An emergency shutdown opened the outlet valve in an earlier cycle; the
\* system was started again, the control loops and the output scan of the
\* present cycle have run, and the valve is still at 100.
C28_Witness ==
    /\ pv.outlet_valve_position = R(100)
    /\ pv.system_running
    /\ cyc.control
    /\ cyc.clamped
    /\ cycles = 2

\* C29: the scan loop pushes data only to running servers: once shutdown()
\* has stopped the Modbus and OPC-UA servers, no cycle, one that was in
\* progress when shutdown() ran included, calls update_registers or
\* update_variables.
C29_NoPushAfterShutdown ==
    (pc = "log" /\ cyc.pushed) => (modbus_running /\ opcua_running)

\* C30: the stored manual_output changes only in a step that takes the
\* controller from automatic to manual mode: set_auto_mode(False, m) on a
\* controller already in manual mode and set_auto_mode(True, m) leave it as
\* it is, and so does every other operation.
C30_ManualOutputFrame ==
    [][pid'.manual_output # pid.manual_output =>
          (last_call'.op = "set_auto_mode" /\ pid.auto_mode /\ ~pid'.auto_mode)]_vars

\* set_auto_mode(True, 150) has run on a controller in manual mode whose
\* stored manual output is 50: it is still 50.
C30_Witness ==
    /\ last_call.op = "set_auto_mode"
    /\ last_call.transfer = R(150)
    /\ pid.auto_mode
    /\ pid.manual_output = R(50)

====
